---- MODULE Spec2Model ----
(***************************************************************************)
(* talk2folder: the ingestion and retrieval routing core.                   *)
(*                                                                         *)
(*   SpecSelector  the path selector (gemini_service.should_use_fast_path)  *)
(*   SpecIngest    folder lifecycle: add_folder, reindex_folder and the     *)
(*                 background jobs ingest_folder / ingest_single_file       *)
(*   SpecAgent     the non-streaming RAG tool loop (_chat_chroma_rag)       *)
(*   SpecStream    the streaming bridge: worker thread, queue, polling      *)
(*                 consumer and the SSE event generator                     *)
(*   SpecChat      the citations of one answer, non-streaming and streaming *)
(*   SpecStore     vector_store: search and the file manifest               *)
(*   SpecDownload  google_drive.download_files_parallel                     *)
(*   SpecChunk     ingestion.chunk_text                                     *)
(*   SpecRag       the RAG agent loop of chat and stream_chat               *)
(*   SpecUpload    gemini_service.upload_files_to_gemini                    *)
(*   SpecList      google_drive.list_files                                  *)
(*   SpecGate      chat requests: send_message and send_message_stream      *)
(*                                                                         *)
(* Every specification owns its variables; the variables of the other      *)
(* parts stay at their idle values.                                         *)
(***************************************************************************)
EXTENDS Integers, Sequences, FiniteSets, TLC

VARIABLES
    selFiles,      \* should_use_fast_path: the argument `files`
    selResult,     \* should_use_fast_path: "unset", or the value returned
    drive,         \* what the linked drive id points to (folder listing or single file)
    folder,        \* the row of table folders (db/models.py Folder)
    collection,    \* the vector collection of (user, folder)
    jobs,          \* the background ingestion tasks, one record per task slot
    last,          \* what the ingestion task that returned in the last step did
    agent,         \* _chat_chroma_rag: loop counter, conversation, citations, result
    worker,        \* streaming: the thread running _sync_stream / _stream_final
    q,             \* streaming: queue.Queue() between worker and consumer
    consumer,      \* streaming: the polling loop of the async generator
    events,        \* streaming: the SSE events event_generator has yielded
    chat,          \* one question asked through /send and through /send/stream
    vstore,        \* vector_store.py: a collection and the call made on it
    dl,            \* download_files_parallel: the tasks and what gather returns
    chunker,       \* chunk_text: its arguments and local variables
    rag,           \* the RAG agent loop with its conversation, chat and stream_chat
    up,            \* upload_files_to_gemini: the tasks and what gather returns
    lister,        \* list_files: the drive tree and the traversal's local variables
    gate           \* chat requests: the folder check, the rows created, the agent call

vars == <<selFiles, selResult, drive, folder, collection, jobs, last,
          agent, worker, q, consumer, events, chat, vstore, dl, chunker, rag, up,
          lister, gate>>

selVars    == <<selFiles, selResult>>
ingestVars == <<drive, folder, collection, jobs, last>>
agentVars  == <<agent>>
streamVars == <<worker, q, consumer, events>>
moreVars == <<chunker, rag, up, lister, gate>>
serviceVars == <<chat, vstore, dl, moreVars>>

Null == "null"

(***************************************************************************)
(* Path selector: gemini_service.py                                        *)
(***************************************************************************)
MAX_FILE_SIZE_BYTES == 10 * 1024 * 1024
MAX_TOTAL_SIZE_BYTES == 100 * 1024 * 1024
MAX_FILES_FOR_FAST_PATH == 50

\* The "size" field of a listed file: absent or None, a string int() rejects, or
\* a number (the Drive API sends numbers as strings; int() parses them).
NoSize == [tag |-> "none", val |-> 0]
BadSize == [tag |-> "bad", val |-> 0]
Size(n) == [tag |-> "int", val |-> n]

\* _get_file_size: None -> 0, int(size), 0 when int() raises.
_get_file_size(f) ==
    IF f.size.tag = "none" THEN 0
    ELSE IF f.size.tag = "bad" THEN 0
    ELSE f.size.val

RECURSIVE SumSizes(_)
\* sum(_get_file_size(f) for f in files)
SumSizes(fs) ==
    IF fs = <<>> THEN 0 ELSE _get_file_size(Head(fs)) + SumSizes(Tail(fs))

\* The mutants of should_use_fast_path (each a one-token slip in its comparisons).
should_use_fast_path_strict(fs) ==
    IF Len(fs) >= MAX_FILES_FOR_FAST_PATH THEN FALSE
    ELSE IF SumSizes(fs) > MAX_TOTAL_SIZE_BYTES THEN FALSE
    ELSE IF \E i \in 1..Len(fs) : _get_file_size(fs[i]) >= MAX_FILE_SIZE_BYTES THEN FALSE
    ELSE TRUE

\* should_use_fast_path: three early returns, then True.
should_use_fast_path(fs) ==
    IF Len(fs) > MAX_FILES_FOR_FAST_PATH THEN FALSE
    ELSE IF SumSizes(fs) > MAX_TOTAL_SIZE_BYTES THEN FALSE
    ELSE IF \E i \in 1..Len(fs) : _get_file_size(fs[i]) > MAX_FILE_SIZE_BYTES THEN FALSE
    ELSE TRUE

\* Input lists: n1 files of size s1 followed by n2 files of size s2.
Block(n, s, base) == [i \in 1..n |-> [id |-> base + i, size |-> s]]
TwoBlocks(n1, s1, n2, s2) == Block(n1, s1, 0) \o Block(n2, s2, n1)

FilesPerTotal == MAX_TOTAL_SIZE_BYTES \div MAX_FILE_SIZE_BYTES
SelSizes ==
    {NoSize, BadSize} \cup
    {Size(n) : n \in {0, 1, MAX_FILE_SIZE_BYTES - 1, MAX_FILE_SIZE_BYTES,
                      MAX_FILE_SIZE_BYTES + 1,
                      MAX_TOTAL_SIZE_BYTES \div MAX_FILES_FOR_FAST_PATH,
                      (MAX_TOTAL_SIZE_BYTES \div MAX_FILES_FOR_FAST_PATH) + 1}}
SelCounts1 == {0, 1, FilesPerTotal - 1, FilesPerTotal, FilesPerTotal + 1,
               MAX_FILES_FOR_FAST_PATH}
SelCounts2 == {0, 1, MAX_FILES_FOR_FAST_PATH - FilesPerTotal,
               MAX_FILES_FOR_FAST_PATH - FilesPerTotal + 1}
SelInputs ==
    {TwoBlocks(n1, s1, n2, s2) : n1 \in SelCounts1, s1 \in SelSizes,
                                 n2 \in SelCounts2, s2 \in {Size(0), Size(1), NoSize}}

SelIdle == selFiles = <<>> /\ selResult = "idle"

\* One call of should_use_fast_path(files).
SelectPath ==
    /\ selResult = "unset"
    /\ selResult' = IF should_use_fast_path(selFiles) THEN "fast" ELSE "rag"
    /\ UNCHANGED <<selFiles, ingestVars, agentVars, streamVars, serviceVars>>

(***************************************************************************)
(* Folder lifecycle: api/routes/drive.py, services/ingestion.py,           *)
(* services/vector_store.py, db/models.py                                  *)
(***************************************************************************)
\* Bounds of the ingestion model.
MaxListed == 3      \* longest listing of supported files in the linked drive folder

\* The background tasks that may be pending or running at once for the folder.
Jobs == {1, 2}

\* Folder.gemini_files (JSON, nullable): NULL, or a list of upload descriptors.
GfNull == [null |-> TRUE, list |-> <<>>]
Gf(l) == [null |-> FALSE, list |-> l]

\* The columns of Folder a job assigns values it may have loaded (indexed_at is
\* only ever assigned datetime.utcnow(), which no loaded value equals).
Cols == {"status", "index_mode", "file_count", "gemini_files"}

\* Folder(...) as add_folder constructs it: the column defaults of db/models.py.
\* `deleted` marks the row delete_folder has removed: a folder id is never used
\* again, a later link of the same drive id makes a row with a new id.
NewFolder ==
    [exists |-> TRUE, deleted |-> FALSE, status |-> "PENDING", index_mode |-> Null,
     file_count |-> 0, indexed_at |-> Null, gemini_files |-> GfNull]
NoFolder == [NewFolder EXCEPT !.exists = FALSE]
DeletedFolder == [NoFolder EXCEPT !.deleted = TRUE]

NoCollection == [exists |-> FALSE, docs |-> {}, manifest |-> <<>>, has_manifest |-> FALSE]

\* What the linked drive id may point to: folders of up to MaxListed small files, a
\* folder with one file over the per-file ceiling, and single files below, at and
\* above 10MB.
Small == Size(1)
Big == Size(MAX_FILE_SIZE_BYTES + 1)
DriveFolders ==
    {[kind |-> "folder", files |-> Block(n, Small, 0)] : n \in 0..MaxListed}
    \cup {[kind |-> "folder", files |-> Block(1, Small, 0) \o Block(1, Big, 1)]}
DriveFiles ==
    {[kind |-> "file", files |-> Block(1, Size(n), 0)] :
        n \in {1, MAX_FILE_SIZE_BYTES, MAX_FILE_SIZE_BYTES + 1}}

IdsOf(fs) == [i \in 1..Len(fs) |-> fs[i].id]

\* A task slot: `pc` is the await the coroutine is suspended at; `loc` holds the
\* values of the ORM object `folder` of the task's own session as last loaded or
\* committed; use_fast_path and downloaded are the local variables the rest of
\* the coroutine reads. Per-file outcomes are kept as counts: the first
\* `downloaded` listed files have content.
IdleJob ==
    [pc |-> "idle", kind |-> "folder", loc |-> [c \in Cols |-> NoFolder[c]],
     use_fast_path |-> FALSE, downloaded |-> 0]

\* What a task did in the step just taken, when it returned ("none" after any
\* other step) or left the fast path ("fallback"): a record of the run, not
\* program state. uploaded: the first `uploaded` files with content got a
\* gemini_uri; raised: the uploader raised; store_raised: the accepted branch
\* raised before its commit; indexed: the indexed_count of the RAG path.
Report(me, result) ==
    [result |-> result, kind |-> me.kind, use_fast_path |-> me.use_fast_path,
     downloaded |-> me.downloaded, uploaded |-> 0, raised |-> FALSE,
     store_raised |-> FALSE, indexed |-> 0]
NoReport == Report(IdleJob, "none")

FreeSlot(j) == jobs[j].pc = "idle"
\* The slot a new task takes: the first free one.
NextSlot(j) == FreeSlot(j) /\ \A k \in Jobs : FreeSlot(k) => j <= k

\* background_tasks.add_task(ingest_folder | ingest_single_file, ...)
add_task(j, kind) == [jobs EXCEPT ![j] = [IdleJob EXCEPT !.pc = "queued", !.kind = kind]]

\* session.commit() after the assignments `assigned` (column |-> value) to the
\* ORM object: the UPDATE carries the assigned columns whose value differs from
\* the one the session loaded or last committed; the other columns of the row
\* are left as they are. An UPDATE of a row that is gone changes nothing.
Flush(row, loaded, assigned) ==
    IF ~row.exists THEN row
    ELSE [c \in DOMAIN row |->
            IF c \in DOMAIN assigned /\ (c \notin DOMAIN loaded \/ assigned[c] # loaded[c])
            THEN assigned[c] ELSE row[c]]

\* vector_store.get_collection: get_or_create_collection
get_collection(coll) == [coll EXCEPT !.exists = TRUE]
\* vector_store.add_documents: upsert of the chunks of the files in `ids`
add_documents(coll, ids) == [get_collection(coll) EXCEPT !.docs = @ \cup ids]
\* vector_store.store_file_manifest: upsert of the one manifest record
store_file_manifest(coll, files) ==
    [get_collection(coll) EXCEPT !.manifest = files, !.has_manifest = TRUE]
\* vector_store.delete_collection
delete_collection(coll) == NoCollection

IngestIdle ==
    /\ drive = [kind |-> "folder", files |-> <<>>]
    /\ folder = NoFolder
    /\ collection = NoCollection
    /\ jobs = [j \in Jobs |-> IdleJob]
    /\ last = NoReport

InitIngest ==
    /\ drive \in DriveFolders \cup DriveFiles
    /\ folder = NoFolder
    /\ collection = NoCollection
    /\ jobs = [j \in Jobs |-> IdleJob]
    /\ last = NoReport

\* ---- drive.py: the request handlers ----

\* add_folder, no Folder row for (user, drive id) yet: create it PENDING and
\* schedule the job matching the drive type.
add_folder_new ==
    /\ ~folder.exists /\ ~folder.deleted
    /\ \E j \in Jobs :
        /\ NextSlot(j)
        /\ jobs' = add_task(j, drive.kind)
    /\ folder' = NewFolder
    /\ last' = NoReport
    /\ UNCHANGED <<drive, collection, selVars, agentVars, streamVars, serviceVars>>

\* add_folder, the row exists and is FAILED: back to PENDING and commit; then,
\* for a file link, the metadata lookup, which may raise (no task is scheduled
\* then), and add_task.
add_folder_failed ==
    /\ folder.exists
    /\ folder.status = "FAILED"
    /\ \/ \E j \in Jobs :
            /\ NextSlot(j)
            /\ jobs' = add_task(j, drive.kind)
       \/ /\ drive.kind = "file"
          /\ UNCHANGED jobs
    /\ folder' = [folder EXCEPT !.status = "PENDING"]
    /\ last' = NoReport
    /\ UNCHANGED <<drive, collection, selVars, agentVars, streamVars, serviceVars>>

\* Mutant of add_folder_existing: a job is scheduled for every existing row.
add_folder_existing_scheduled ==
    /\ folder.exists
    /\ folder.status # "FAILED"
    /\ \E j \in Jobs :
        /\ NextSlot(j)
        /\ jobs' = add_task(j, drive.kind)
    /\ last' = NoReport
    /\ UNCHANGED <<drive, folder, collection, selVars, agentVars, streamVars, serviceVars>>

\* add_folder, the row exists in any other status: the row is returned as it is.
add_folder_existing ==
    /\ folder.exists
    /\ folder.status # "FAILED"
    /\ last' = NoReport
    /\ UNCHANGED <<drive, folder, collection, jobs, selVars, agentVars, streamVars, serviceVars>>

\* reindex_folder: delete the collection, reset the row and commit; then the
\* metadata lookup, which may raise (no task is scheduled then), and add_task.
reindex_folder ==
    /\ folder.exists
    /\ collection' = delete_collection(collection)
    /\ folder' = [folder EXCEPT !.status = "PENDING", !.file_count = 0,
                                !.index_mode = Null, !.gemini_files = GfNull]
    /\ \/ \E j \in Jobs :
            /\ NextSlot(j)
            /\ jobs' = add_task(j, drive.kind)
       \/ UNCHANGED jobs
    /\ last' = NoReport
    /\ UNCHANGED <<drive, selVars, agentVars, streamVars, serviceVars>>

\* delete_folder: the collection is deleted, then the row (with its
\* conversations) and the commit. Tasks already scheduled are not cancelled.
delete_folder ==
    /\ folder.exists
    /\ collection' = delete_collection(collection)
    /\ folder' = DeletedFolder
    /\ last' = NoReport
    /\ UNCHANGED <<drive, jobs, selVars, agentVars, streamVars, serviceVars>>

\* ---- ingestion.py: the background jobs ----

\* The end of a job: the assignments to the ORM object are committed and the
\* coroutine returns; `report` says what it did.
Finish(j, report, assigned, coll) ==
    /\ folder' = Flush(folder, jobs[j].loc, assigned)
    /\ collection' = coll
    /\ jobs' = [jobs EXCEPT ![j] = IdleJob]
    /\ last' = report

\* Mutant of Failed: the handler re-raises without touching the status.
FailedStatusKept(j) ==
    Finish(j, Report(jobs[j], "failed"), <<>>, collection)

\* except Exception of the job: status FAILED, commit, re-raise.
Failed(j) ==
    Finish(j, Report(jobs[j], "failed"), [status |-> "FAILED"], collection)

\* Both jobs: load the row; return when there is none; else status INDEXING, commit.
JobStart(j) ==
    /\ jobs[j].pc = "queued"
    /\ IF folder.exists
       THEN /\ folder' = Flush(folder, [c \in Cols |-> folder[c]],
                                 [status |-> "INDEXING"])
            /\ jobs' = [jobs EXCEPT ![j].pc = "started",
                                    ![j].loc = [c \in Cols |->
                                                 IF c = "status" THEN "INDEXING"
                                                 ELSE folder[c]]]
            /\ last' = NoReport
       ELSE /\ jobs' = [jobs EXCEPT ![j] = IdleJob]
            /\ last' = Report(jobs[j], "no_folder")
            /\ UNCHANGED folder
    /\ UNCHANGED <<drive, collection, selVars, agentVars, streamVars, serviceVars>>

\* Mutant of EmptyListing: an empty listing treated as a failure.
EmptyListingFailed == [status |-> "FAILED"]

\* if not files: status READY, file_count 0, indexed_at now (index_mode and
\* gemini_files are not assigned).
EmptyListing ==
    [status |-> "READY", file_count |-> 0, indexed_at |-> "set"]

\* ingest_folder: await list_files. It raises; or lists nothing (READY with
\* file_count 0, return); or lists files, and the path is selected.
JobList(j) ==
    /\ jobs[j].pc = "started"
    /\ jobs[j].kind = "folder"
    /\ \/ Failed(j)
       \/ /\ drive.files = <<>>
          /\ Finish(j, Report(jobs[j], "empty"), EmptyListing, collection)
       \/ /\ drive.files # <<>>
          /\ jobs' = [jobs EXCEPT ![j].pc = "download",
                                  ![j].use_fast_path = should_use_fast_path(drive.files)]
          /\ last' = NoReport
          /\ UNCHANGED <<folder, collection>>
    /\ UNCHANGED <<drive, selVars, agentVars, streamVars, serviceVars>>

\* ingest_folder: await download_files_parallel; the first `n` files come with
\* content, the others with None. The fast path goes on to the upload, the RAG
\* path to processing.
JobDownload(j) ==
    /\ jobs[j].pc = "download"
    /\ \E n \in 0..Len(drive.files) :
        jobs' = [jobs EXCEPT ![j].downloaded = n,
                             ![j].pc = IF jobs[j].use_fast_path THEN "upload"
                                       ELSE "process"]
    /\ last' = NoReport
    /\ UNCHANGED <<drive, folder, collection, selVars, agentVars, streamVars, serviceVars>>

\* The descriptors upload_files_to_gemini returns: one per file with content, in
\* input order, gemini_uri None for the uploads that failed.
UploadResults(fs, downloaded, ok) ==
    [i \in 1..downloaded |->
        [id |-> fs[i].id, gemini_uri |-> IF i <= ok THEN "uri" ELSE Null]]

\* Mutant of SuccessfulUploads: every descriptor kept, handle or not.
EveryUpload(results) == results

\* successful_uploads = [f for f in gemini_files if f.get("gemini_uri")]
SuccessfulUploads(results) == SelectSeq(results, LAMBDA f : f.gemini_uri # Null)

\* Mutant of AcceptFastPath: success_rate > 0.5.
AcceptFastPathStrict(results) ==
    LET n == Len(SuccessfulUploads(results))
        total_attempted == Len(results)
    IN /\ IF total_attempted > 0 THEN 2 * n > total_attempted ELSE FALSE
       /\ n > 0

\* success_rate >= 0.5 and successful_uploads, with
\* success_rate = len(successful_uploads) / total_attempted if total_attempted > 0 else 0
AcceptFastPath(results) ==
    LET n == Len(SuccessfulUploads(results))
        total_attempted == Len(results)
    IN /\ IF total_attempted > 0 THEN 2 * n >= total_attempted ELSE FALSE
       /\ n > 0

\* ingest_folder, fast path: await upload_files_to_gemini inside the inner try. An
\* exception there falls through to the RAG path, as does a rejected success rate;
\* an accepted one stores the manifest of the uploaded files and commits, unless
\* store_file_manifest raises, which the inner except turns into the RAG path too.
JobUpload(j) ==
    /\ jobs[j].pc = "upload"
    /\ \/ /\ jobs' = [jobs EXCEPT ![j].pc = "process"]
          /\ last' = [Report(jobs[j], "fallback") EXCEPT !.raised = TRUE]
          /\ UNCHANGED <<folder, collection>>
       \/ \E ok \in 0..jobs[j].downloaded :
            LET gemini_files == UploadResults(drive.files, jobs[j].downloaded, ok)
                successful_uploads == SuccessfulUploads(gemini_files)
            IN IF AcceptFastPath(gemini_files)
               THEN \/ Finish(j, [Report(jobs[j], "gemini_files") EXCEPT !.uploaded = ok],
                              [index_mode |-> "gemini_files", gemini_files |-> Gf(successful_uploads), status |-> "READY", file_count |-> Len(successful_uploads), indexed_at |-> "set"],
                              store_file_manifest(collection, IdsOf(successful_uploads)))
                    \/ /\ jobs' = [jobs EXCEPT ![j].pc = "process"]
                       /\ last' = [Report(jobs[j], "fallback") EXCEPT
                                       !.uploaded = ok, !.store_raised = TRUE]
                       /\ UNCHANGED <<folder, collection>>
               ELSE /\ jobs' = [jobs EXCEPT ![j].pc = "process"]
                    /\ last' = [Report(jobs[j], "fallback") EXCEPT !.uploaded = ok]
                    /\ UNCHANGED <<folder, collection>>
    /\ UNCHANGED <<drive, selVars, agentVars, streamVars, serviceVars>>

\* ingest_folder, RAG path: await process_files_parallel, which raises or returns
\* with the first `indexed_count` files with content having given chunks; then
\* add_documents when there are chunks, the manifest of every listed file, and
\* the commit. store_file_manifest may raise after the chunks are stored.
JobProcess(j) ==
    /\ jobs[j].pc = "process"
    /\ \/ Failed(j)
       \/ \E indexed_count \in 1..jobs[j].downloaded :
            Finish(j, Report(jobs[j], "failed"),
                   [status |-> "FAILED"],
                   add_documents(collection, 1..indexed_count))
       \/ \E indexed_count \in 0..jobs[j].downloaded :
            Finish(j, [Report(jobs[j], "chroma") EXCEPT !.indexed = indexed_count],
                   [index_mode |-> "chroma", status |-> "READY", file_count |-> indexed_count, indexed_at |-> "set"],
                   store_file_manifest(
                       IF indexed_count > 0
                       THEN add_documents(collection, 1..indexed_count)
                       ELSE collection,
                       IdsOf(drive.files)))
    /\ UNCHANGED <<drive, selVars, agentVars, streamVars, serviceVars>>

\* ingest_single_file, RAG path (no await: process_file_content is a plain call):
\* it raises; or gives no documents (FAILED, return); or, for a file that has
\* content, the chunks and the manifest are stored and the row committed READY
\* in mode chroma.
SingleRag(j, report) ==
    \/ Finish(j, [report EXCEPT !.result = "failed"],
              [status |-> "FAILED"], collection)
    \/ Finish(j, [report EXCEPT !.result = "no_documents"],
              [status |-> "FAILED"], collection)
    \/ /\ report.downloaded = 1
       /\ Finish(j, [report EXCEPT !.result = "chroma"],
                 [index_mode |-> "chroma", status |-> "READY", file_count |-> 1, indexed_at |-> "set"],
                 store_file_manifest(add_documents(collection, {drive.files[1].id}),
                                     IdsOf(drive.files)))

\* if file_size < 10 * 1024 * 1024
SingleGate(file_size) == file_size < 10 * 1024 * 1024

\* ingest_single_file: await download_file. It raises; or it returns the
\* content, as long as the file, or None (file_size 0). A size under the gate
\* goes on to the upload, any other straight to the RAG path.
JobDownloadSingle(j) ==
    /\ jobs[j].pc = "started"
    /\ jobs[j].kind = "file"
    /\ \/ Failed(j)
       \/ \E got \in 0..1 :
          LET file_size == IF got = 1 THEN _get_file_size(drive.files[1]) ELSE 0
              me == [jobs[j] EXCEPT !.downloaded = got]
          IN IF SingleGate(file_size)
             THEN /\ jobs' = [jobs EXCEPT ![j] = [me EXCEPT !.pc = "upload_single",
                                                            !.use_fast_path = TRUE]]
                  /\ last' = NoReport
                  /\ UNCHANGED <<folder, collection>>
             ELSE SingleRag(j, Report(me, "rag"))
    /\ UNCHANGED <<drive, selVars, agentVars, streamVars, serviceVars>>

\* ingest_single_file: await upload_files_to_gemini([(file_dict, content)]). An
\* exception here or in the accepted branch reaches the outer except. A first
\* descriptor with a gemini_uri is accepted, the list stored as it is; anything
\* else falls back.
JobUploadSingle(j) ==
    /\ jobs[j].pc = "upload_single"
    /\ \/ Failed(j)
       \/ \E ok \in 0..jobs[j].downloaded :
            LET gemini_files == UploadResults(drive.files, jobs[j].downloaded, ok)
                report == [Report(jobs[j], "gemini_files") EXCEPT !.uploaded = ok]
            IN IF Len(gemini_files) > 0 /\ gemini_files[1].gemini_uri # Null
               THEN Finish(j, report,
                           [index_mode |-> "gemini_files", gemini_files |-> Gf(gemini_files), status |-> "READY", file_count |-> 1, indexed_at |-> "set"],
                           store_file_manifest(collection, IdsOf(drive.files)))
               ELSE SingleRag(j, report)
    /\ UNCHANGED <<drive, selVars, agentVars, streamVars, serviceVars>>

NextIngest ==
    \/ add_folder_new
    \/ add_folder_failed
    \/ add_folder_existing
    \/ reindex_folder
    \/ \E j \in Jobs :
        \/ JobStart(j)
        \/ JobList(j)
        \/ JobDownload(j)
        \/ JobUpload(j)
        \/ JobProcess(j)
        \/ JobDownloadSingle(j)
        \/ JobUploadSingle(j)

\* The lifecycle with deletion of the folder.
NextLifecycle == NextIngest \/ delete_folder

(***************************************************************************)
(* Non-streaming RAG chat: agent/hybrid_agent.py                           *)
(***************************************************************************)
MaxHits == 2        \* longest result list a search returns

max_iterations == 5

\* File names search hits may carry.
HitNames == {"a.txt", "b.txt"}

RECURSIVE SeqsUpTo(_, _)
\* The sequences over S of length at most n.
SeqsUpTo(S, n) ==
    IF n = 0 THEN {<<>>}
    ELSE LET shorter == SeqsUpTo(S, n - 1)
         IN shorter \cup {Append(q0, x) : q0 \in shorter, x \in S}
HitLists == SeqsUpTo(HitNames, MaxHits)

\* What the chat model may answer. `match` is what re.search(r'\{[^{}]+\}') finds
\* in the text: nothing, a group json.loads rejects, or a JSON object; has_tool
\* says whether that object has the key "tool", `tool` is the key's value.
Response(txt, match, has_tool, tool) ==
    [txt |-> txt, match |-> match, has_tool |-> has_tool, tool |-> tool]
NoResponse == Response("", "none", FALSE, "")
Responses ==
    {Response("answer", "none", FALSE, ""),
     Response("answer {oops}", "invalid", FALSE, ""),
     Response("{\"query\": 1}", "object", FALSE, ""),
     Response("{\"tool\": \"list_files\"}", "object", TRUE, "list_files"),
     Response("{\"tool\": \"search_documents\"}", "object", TRUE, "search_documents"),
     Response("{\"tool\": \"get_file_content\"}", "object", TRUE, "get_file_content"),
     Response("{\"tool\": \"other\"}", "object", TRUE, "other")}

NoCall == [some |-> FALSE, tool |-> ""]

\* Mutant of _parse_tool_call: the check for the key "tool" is missing.
_parse_tool_call_any_object(r) ==
    IF r.match = "none" THEN NoCall
    ELSE IF r.match = "invalid" THEN NoCall
    ELSE [some |-> TRUE, tool |-> r.tool]

\* _parse_tool_call: the first brace group, parsed as JSON, when it has the key
\* "tool"; None otherwise.
_parse_tool_call(r) ==
    IF r.match = "none" THEN NoCall
    ELSE IF r.match = "invalid" THEN NoCall
    ELSE IF r.has_tool THEN [some |-> TRUE, tool |-> r.tool]
    ELSE NoCall

\* _execute_tool: only search_documents answers with the key "results"
\* (list_files: "files", get_file_content: "chunks", anything else: "error").
_execute_tool(tool_call, hits) ==
    IF tool_call.tool = "search_documents"
    THEN [has_results |-> TRUE, results |-> hits]
    ELSE [has_results |-> FALSE, results |-> <<>>]

RECURSIVE AddCitations(_, _)
\* for r in results: append the citation unless one with its file_name is there.
AddCitations(all_citations, results) ==
    IF results = <<>> THEN all_citations
    ELSE AddCitations(
            IF \E i \in 1..Len(all_citations) : all_citations[i] = Head(results)
            THEN all_citations
            ELSE Append(all_citations, Head(results)),
            Tail(results))

Apology ==
    "I apologize, but I wasn't able to find the relevant information after several attempts."

\* all_citations if all_citations else None
CitationsOrNone(all_citations) ==
    [null |-> all_citations = <<>>, list |-> all_citations]

NoResult == [content |-> "", citations |-> CitationsOrNone(<<>>)]

\* agent.pc: "idle", "loop" (inside for _ in range(max_iterations)), "returned",
\* "raised". calls: model calls made; tool_calls: responses so far that carried
\* a tool call; response: the last answer of the model.
AgentStart ==
    [pc |-> "loop", calls |-> 0, tool_calls |-> 0, response |-> NoResponse,
     all_citations |-> <<>>, result |-> NoResult]
AgentIdle == agent = [AgentStart EXCEPT !.pc = "idle"]

\* One iteration in which the model answers `r` and, for a search, the tool
\* finds `hits`: a tool call is executed and recorded, and after the last
\* iteration the apology is returned; any other answer is returned at once.
ModelResponds ==
    /\ agent.pc = "loop"
    /\ agent.calls < max_iterations
    /\ \E r \in Responses, hits \in HitLists :
        LET tool_call == _parse_tool_call(r)
            tool_result == _execute_tool(tool_call, hits)
            all_citations ==
                IF tool_call.some /\ tool_result.has_results
                THEN AddCitations(agent.all_citations, tool_result.results)
                ELSE agent.all_citations
            called == [agent EXCEPT !.calls = @ + 1, !.response = r]
        IN /\ (hits # <<>>) => (tool_call.some /\ tool_result.has_results)
           /\ agent' =
                IF tool_call.some
                THEN IF called.calls = max_iterations
                     THEN [called EXCEPT !.tool_calls = @ + 1,
                                         !.all_citations = all_citations,
                                         !.pc = "returned",
                                         !.result = [content |-> Apology,
                                                     citations |-> CitationsOrNone(all_citations)]]
                     ELSE [called EXCEPT !.tool_calls = @ + 1,
                                         !.all_citations = all_citations]
                ELSE [called EXCEPT !.pc = "returned",
                                    !.result = [content |-> r.txt,
                                                citations |-> CitationsOrNone(agent.all_citations)]]
    /\ UNCHANGED <<selVars, ingestVars, streamVars, serviceVars>>

\* The model call raises: the exception leaves _chat_chroma_rag.
ModelRaises ==
    /\ agent.pc = "loop"
    /\ agent.calls < max_iterations
    /\ agent' = [agent EXCEPT !.calls = @ + 1, !.pc = "raised", !.response = NoResponse]
    /\ UNCHANGED <<selVars, ingestVars, streamVars, serviceVars>>

\* The model answers with a tool call and the tool raises (the vector store is
\* not reachable): the exception leaves _chat_chroma_rag.
ToolRaises ==
    /\ agent.pc = "loop"
    /\ agent.calls < max_iterations
    /\ \E r \in Responses :
        /\ _parse_tool_call(r).some
        /\ _parse_tool_call(r).tool \in {"list_files", "search_documents", "get_file_content"}
        /\ agent' = [agent EXCEPT !.calls = @ + 1, !.tool_calls = @ + 1,
                                  !.pc = "raised", !.response = r]
    /\ UNCHANGED <<selVars, ingestVars, streamVars, serviceVars>>

NextAgent == ModelResponds \/ ModelRaises \/ ToolRaises

(***************************************************************************)
(* Streaming chat: services/gemini_service.py stream_chat_with_files,      *)
(* agent/hybrid_agent.py _stream_chroma_rag, api/routes/chat.py            *)
(***************************************************************************)
MaxChunks == 3      \* most text chunks one generation streams

\* What travels: the text of chunk n, the text of the exception, or nothing.
Text(n) == [kind |-> "text", n |-> n]
ErrorText == [kind |-> "error", n |-> 0]
NoData == [kind |-> "none", n |-> 0]

\* Queue items (event_type, data) and SSE events {"event": ..., "data": ...}.
Item(type, data) == [type |-> type, data |-> data]
Event(event, data) == [event |-> event, data |-> data]

\* worker.pc: "idle", "running" (inside _sync_stream / _stream_final),
\* "finishing" (its last put is made, the thread function has not returned yet),
\* "exited". sent: chunks put so far; ended: how the generation ended.
\* consumer.pc: "idle", "prepare" (the code before thread.start()), "get" (in
\* q.get(timeout=0.1)), "except" (in the except clause, before is_alive()),
\* "join", "save" (event_generator after the stream), "finished", "closed"
\* (the client has gone away).
StreamStart(variant) ==
    /\ worker = [pc |-> "idle", sent |-> 0, ended |-> "no"]
    /\ q = <<>>
    /\ consumer = [pc |-> "prepare", variant |-> variant, yielded |-> <<>>]
    /\ events = <<Event("start", NoData)>>

StreamIdle ==
    /\ worker = [pc |-> "idle", sent |-> 0, ended |-> "no"]
    /\ q = <<>>
    /\ consumer = [pc |-> "idle", variant |-> "gemini_files", yielded |-> <<>>]
    /\ events = <<>>

\* thread.is_alive()
is_alive(w) == w.pc \in {"running", "finishing"}

\* The code before the thread: model and file parts (stream_chat_with_files), the
\* tool loop (_stream_chroma_rag). Then thread.start().
PrepareDone ==
    /\ consumer.pc = "prepare"
    /\ consumer' = [consumer EXCEPT !.pc = "get"]
    /\ worker' = [worker EXCEPT !.pc = "running"]
    /\ UNCHANGED <<q, events, selVars, ingestVars, agentVars, serviceVars>>

\* That code raises: the exception reaches event_generator's except clause.
PrepareRaises ==
    /\ consumer.pc = "prepare"
    /\ consumer' = [consumer EXCEPT !.pc = "finished"]
    /\ events' = Append(events, Event("error", ErrorText))
    /\ UNCHANGED <<worker, q, selVars, ingestVars, agentVars, serviceVars>>

\* Mutant of full: a queue made with maxsize=1.
full_maxsize_1(queue) == Len(queue) >= 1

\* q = queue.Queue(): maxsize 0, the queue is never full and put never waits.
full(queue) == FALSE

\* for chunk in response: if chunk.text: q.put(("text", chunk.text))
WorkerPutText ==
    /\ worker.pc = "running"
    /\ ~full(q)
    /\ worker.sent < MaxChunks
    /\ q' = Append(q, Item("text", Text(worker.sent + 1)))
    /\ worker' = [worker EXCEPT !.sent = @ + 1]
    /\ UNCHANGED <<consumer, events, selVars, ingestVars, agentVars, serviceVars>>

\* q.put(("done", None))
WorkerPutDone ==
    /\ worker.pc = "running"
    /\ ~full(q)
    /\ q' = Append(q, Item("done", NoData))
    /\ worker' = [worker EXCEPT !.pc = "finishing", !.ended = "done"]
    /\ UNCHANGED <<consumer, events, selVars, ingestVars, agentVars, serviceVars>>

\* except Exception as e: q.put(("error", str(e)))
WorkerPutError ==
    /\ worker.pc = "running"
    /\ ~full(q)
    /\ q' = Append(q, Item("error", ErrorText))
    /\ worker' = [worker EXCEPT !.pc = "finishing", !.ended = "error"]
    /\ UNCHANGED <<consumer, events, selVars, ingestVars, agentVars, serviceVars>>

\* The thread function returns: the thread is no longer alive.
WorkerExit ==
    /\ worker.pc = "finishing"
    /\ worker' = [worker EXCEPT !.pc = "exited"]
    /\ UNCHANGED <<q, consumer, events, selVars, ingestVars, agentVars, serviceVars>>

\* q.get returns a text item: yield data; event_generator sends a content event.
ConsumerGetText ==
    /\ consumer.pc = "get"
    /\ q # <<>> /\ Head(q).type = "text"
    /\ q' = Tail(q)
    /\ consumer' = [consumer EXCEPT !.yielded = Append(@, Head(q).data)]
    /\ events' = Append(events, Event("content", Head(q).data))
    /\ UNCHANGED <<worker, selVars, ingestVars, agentVars, serviceVars>>

\* q.get returns the done item: break.
ConsumerGetDone ==
    /\ consumer.pc = "get"
    /\ q # <<>> /\ Head(q).type = "done"
    /\ q' = Tail(q)
    /\ consumer' = [consumer EXCEPT !.pc = "join"]
    /\ UNCHANGED <<worker, events, selVars, ingestVars, agentVars, serviceVars>>

\* q.get returns the error item: yield f"\n\nError: {data}", then break.
ConsumerGetError ==
    /\ consumer.pc = "get"
    /\ q # <<>> /\ Head(q).type = "error"
    /\ q' = Tail(q)
    /\ consumer' = [consumer EXCEPT !.pc = "join", !.yielded = Append(@, Head(q).data)]
    /\ events' = Append(events, Event("content", Head(q).data))
    /\ UNCHANGED <<worker, selVars, ingestVars, agentVars, serviceVars>>

\* q.get(timeout=0.1) finds the queue empty for the whole timeout: queue.Empty
\* is raised into the bare except clause.
ConsumerTimeout ==
    /\ consumer.pc = "get"
    /\ q = <<>>
    /\ consumer' = [consumer EXCEPT !.pc = "except"]
    /\ UNCHANGED <<worker, q, events, selVars, ingestVars, agentVars, serviceVars>>

\* Mutant of AfterTimeout: the liveness test inverted.
AfterTimeoutInverted(alive) == IF alive THEN "join" ELSE "get"

\* if not thread.is_alive(): break -- else sleep and poll again.
AfterTimeout(alive) == IF ~alive THEN "join" ELSE "get"

ConsumerCheckAlive ==
    /\ consumer.pc = "except"
    /\ consumer' = [consumer EXCEPT !.pc = AfterTimeout(is_alive(worker))]
    /\ UNCHANGED <<worker, q, events, selVars, ingestVars, agentVars, serviceVars>>

\* thread.join() returns once the thread has ended.
ConsumerJoin ==
    /\ consumer.pc = "join"
    /\ ~is_alive(worker)
    /\ consumer' = [consumer EXCEPT !.pc = "save"]
    /\ UNCHANGED <<worker, q, events, selVars, ingestVars, agentVars, serviceVars>>

\* event_generator after the stream: the assistant message is saved and the done
\* event sent.
GenSaveDone ==
    /\ consumer.pc = "save"
    /\ consumer' = [consumer EXCEPT !.pc = "finished"]
    /\ events' = Append(events, Event("done", NoData))
    /\ UNCHANGED <<worker, q, selVars, ingestVars, agentVars, serviceVars>>

\* The save raises: except Exception sends the error event.
GenSaveRaises ==
    /\ consumer.pc = "save"
    /\ consumer' = [consumer EXCEPT !.pc = "finished"]
    /\ events' = Append(events, Event("error", ErrorText))
    /\ UNCHANGED <<worker, q, selVars, ingestVars, agentVars, serviceVars>>

\* The client goes away while the generator is suspended in its loop: the
\* generator is not resumed any more. Nothing tells the thread.
ClientDisconnect ==
    /\ consumer.pc \in {"get", "except"}
    /\ consumer' = [consumer EXCEPT !.pc = "closed"]
    /\ UNCHANGED <<worker, q, events, selVars, ingestVars, agentVars, serviceVars>>

WorkerNext == WorkerPutText \/ WorkerPutDone \/ WorkerPutError \/ WorkerExit
ConsumerLoop ==
    \/ ConsumerGetText
    \/ ConsumerGetDone
    \/ ConsumerGetError
    \/ ConsumerTimeout
    \/ ConsumerCheckAlive
NextStream ==
    \/ PrepareDone
    \/ PrepareRaises
    \/ WorkerNext
    \/ ConsumerLoop
    \/ ConsumerJoin
    \/ GenSaveDone
    \/ GenSaveRaises

(***************************************************************************)
(* The citations of one answer: api/routes/chat.py send_message and         *)
(* send_message_stream, gemini_service.chat_with_files, _chat_chroma_rag    *)
(***************************************************************************)
MaxDescriptors == 2     \* most uploaded-file descriptors on the folder
MaxSearches == 2        \* most tool calls the scripted model makes before answering

\* An upload descriptor of Folder.gemini_files: the Drive id and the name of the
\* file ("" for a descriptor whose name is empty or missing).
Descriptor(id, name) == [id |-> id, name |-> name]
DescriptorLists ==
    {[i \in 1..Len(names) |-> Descriptor(i, names[i])] :
        names \in SeqsUpTo(HitNames \cup {""}, MaxDescriptors)}

\* The scripted model: in native-files mode the names that occur in the answer
\* text (fname.lower() in content.lower()); in RAG mode the result list of each
\* search the model asks for before it answers.
ChatInputs ==
    {[index_mode |-> "gemini_files", gemini_files |-> fs, mentions |-> m,
      searches |-> <<>>] : fs \in DescriptorLists, m \in SUBSET HitNames}
    \cup
    {[index_mode |-> "chroma", gemini_files |-> <<>>, mentions |-> {},
      searches |-> sq] : sq \in SeqsUpTo(HitLists, MaxSearches)}

\* The file names of a list of descriptors, in order.
NamesOf(fs) == [i \in 1..Len(fs) |-> fs[i].name]

\* chat_with_files: one citation for every descriptor with a name that occurs in
\* the answer text.
chat_with_files(gemini_files, mentions) ==
    CitationsOrNone(NamesOf(SelectSeq(gemini_files,
        LAMBDA f : f.name # "" /\ f.name \in mentions)))

RECURSIVE _chat_chroma_rag(_, _)
\* _chat_chroma_rag: the citations gathered over the searches of the tool loop.
_chat_chroma_rag(all_citations, searches) ==
    IF searches = <<>> THEN CitationsOrNone(all_citations)
    ELSE _chat_chroma_rag(AddCitations(all_citations, Head(searches)), Tail(searches))

\* HybridAgent.chat: the citations of the answer dict.
HybridAgent_chat(c) ==
    IF c.index_mode = "gemini_files"
    THEN chat_with_files(c.gemini_files, c.mentions)
    ELSE _chat_chroma_rag(<<>>, c.searches)

\* event_generator after the stream: one citation for every descriptor of the
\* handler's gemini_files that has a name.
event_generator_citations(c) ==
    CitationsOrNone(NamesOf(SelectSeq(c.gemini_files, LAMBDA f : f.name # "")))

NotAsked == [asked |-> FALSE, citations |-> CitationsOrNone(<<>>)]
Asked(citations) == [asked |-> TRUE, citations |-> citations]

ChatStart(c) == chat = [input |-> c, send |-> NotAsked, stream |-> NotAsked]
ChatIdle == chat = [input |-> [index_mode |-> "chroma", gemini_files |-> <<>>,
                               mentions |-> {}, searches |-> <<>>],
                    send |-> Asked(CitationsOrNone(<<>>)),
                    stream |-> Asked(CitationsOrNone(<<>>))]

\* POST /send: response.get("citations") of agent.chat is saved and returned.
send_message ==
    /\ ~chat.send.asked
    /\ chat' = [chat EXCEPT !.send = Asked(HybridAgent_chat(chat.input))]
    /\ UNCHANGED <<vstore, dl, selVars, ingestVars, agentVars, streamVars, moreVars>>

\* POST /send/stream: the citations of the done event.
send_message_stream ==
    /\ ~chat.stream.asked
    /\ chat' = [chat EXCEPT !.stream = Asked(event_generator_citations(chat.input))]
    /\ UNCHANGED <<vstore, dl, selVars, ingestVars, agentVars, streamVars, moreVars>>

NextChat == send_message \/ send_message_stream

(***************************************************************************)
(* The vector store: services/vector_store.py search_documents,            *)
(* store_file_manifest, get_file_manifest                                  *)
(***************************************************************************)
MaxChunkRecords == 2    \* most chunk records in the collection
MaxResults == 2         \* largest result cap n_results
MaxStores == 2          \* most store_file_manifest calls in one run

PREVIEW_NAMES == 50

\* JSON text as its tokens.
Tok(kind, str, num) == [kind |-> kind, str |-> str, num |-> num]

\* The tokens of one descriptor object, and of the objects of a list one after
\* the other (6 tokens each).
DumpObject(f) ==
    <<Tok("{", "", 0), Tok("key", "id", 0), Tok("num", "", f.id),
      Tok("key", "name", 0), Tok("str", f.name, 0), Tok("}", "", 0)>>
DumpObjects(files) ==
    [k \in 1..(6 * Len(files)) |-> DumpObject(files[((k - 1) \div 6) + 1])[((k - 1) % 6) + 1]]

\* json.dumps(files)
json_dumps(files) == <<Tok("[", "", 0)>> \o DumpObjects(files) \o <<Tok("]", "", 0)>>

\* The descriptors of a run of object tokens; ok is false where the run is not
\* a sequence of whole objects.
ParseObjects(toks) ==
    LET count == Len(toks) \div 6
        whole == /\ Len(toks) = 6 * count
                 /\ \A i \in 1..count :
                      LET o == SubSeq(toks, 6 * i - 5, 6 * i)
                      IN /\ o[1].kind = "{" /\ o[2] = Tok("key", "id", 0)
                         /\ o[3].kind = "num" /\ o[4] = Tok("key", "name", 0)
                         /\ o[5].kind = "str" /\ o[6].kind = "}"
    IN IF whole
       THEN [ok |-> TRUE,
             value |-> [i \in 1..count |->
                          Descriptor(toks[6 * i - 3].num, toks[6 * i - 1].str)]]
       ELSE [ok |-> FALSE, value |-> <<>>]

\* json.loads(text): ok is false where it raises JSONDecodeError.
json_loads(text) ==
    IF Len(text) < 2 \/ text[1].kind # "[" \/ text[Len(text)].kind # "]"
    THEN [ok |-> FALSE, value |-> <<>>]
    ELSE ParseObjects(SubSeq(text, 2, Len(text) - 1))

\* A manifest text cut short, as a damaged record would hold it.
Damaged(text) == SubSeq(text, 1, Len(text) - 1)

\* The records of the collection: chunks (metadata without the key "type") and
\* the manifest record under its reserved id.
ManifestId == "_manifest_"
NoSummary == [names |-> <<>>, more |-> 0]
ChunkRecord(i, file_name) ==
    [id |-> ToString(i), type |-> "none", file_name |-> file_name, manifest_json |-> <<>>,
     summary |-> NoSummary]

\* manifest_summary: the names of files[:50] and, beyond 50 files, how many more.
manifest_summary(files) ==
    [names |-> NamesOf(SubSeq(files, 1, IF Len(files) > PREVIEW_NAMES
                                        THEN PREVIEW_NAMES ELSE Len(files))),
     more |-> IF Len(files) > PREVIEW_NAMES THEN Len(files) - PREVIEW_NAMES ELSE 0]

\* Mutant of ManifestRecord: the JSON payload truncated like the preview.
ManifestRecordTruncated(files) ==
    [id |-> ManifestId, type |-> "manifest", file_name |-> "",
     manifest_json |-> json_dumps(SubSeq(files, 1, IF Len(files) > PREVIEW_NAMES
                                                   THEN PREVIEW_NAMES ELSE Len(files))),
     summary |-> manifest_summary(files)]

\* The record store_file_manifest upserts.
ManifestRecord(files) ==
    [id |-> ManifestId, type |-> "manifest", file_name |-> "",
     manifest_json |-> json_dumps(files), summary |-> manifest_summary(files)]

\* collection.upsert of one record: a record with the same id is replaced.
upsert(records, rec) == {r \in records : r.id # rec.id} \cup {rec}

\* The chunk records a collection may hold, and the descriptor lists stored.
ChunkSets ==
    {{ChunkRecord(i, names[i]) : i \in 1..Len(names)} :
        names \in SeqsUpTo(HitNames, MaxChunkRecords)}
ManifestEntry(i) == Descriptor(i, IF i % 2 = 1 THEN "a.txt" ELSE "b.txt")
ManifestLens == {1, 2, PREVIEW_NAMES, PREVIEW_NAMES + 1}
ManifestLists ==
    {[i \in 1..n |-> ManifestEntry(i + base)] : n \in ManifestLens, base \in 0..1}

\* What collection.query may return for a result cap: up to n_results of the
\* records it matches, in the order of its ranking.
Rankings(matching, n_results) ==
    {r \in SeqsUpTo(matching, n_results) :
        \A i, k \in 1..Len(r) : r[i] = r[k] => i = k}

\* where_filter: type $ne manifest, and file_name $eq the filter when given.
WhereFilter(records, file_name_filter) ==
    {r \in records : /\ r.type # "manifest"
                     /\ file_name_filter # Null => r.file_name = file_name_filter}

\* Mutant of SkipManifest: every document of the query result is returned.
SkipNothing(raw) == raw

\* The loop over results["documents"][0]: a manifest record is skipped.
SkipManifest(raw) == SelectSeq(raw, LAMBDA r : r.type # "manifest")

\* vstore.call: the function called last; fault: what failed in that call;
\* raised: the call raised; stored: the list of the last store_file_manifest;
\* manifest: what get_file_manifest returned; raw, hits: what the query
\* returned to search_documents and what search_documents returned; filter:
\* the file_name_filter of the search; exists: the collection exists in the
\* store. Every function modelled here begins with get_collection, which is
\* client.get_or_create_collection: unless that raises, the collection exists
\* afterwards.
Called(v, call, fault, raised) ==
    [v EXCEPT !.call = call, !.fault = fault, !.raised = raised,
              !.manifest = <<>>, !.raw = <<>>, !.hits = <<>>, !.filter = Null,
              !.exists = (@ \/ fault # "get_collection")]
StoreStart(chunks) ==
    vstore = [records |-> chunks, stores |-> 0, stored |-> <<>>, call |-> "none",
              fault |-> "none", raised |-> FALSE, manifest |-> <<>>, raw |-> <<>>,
              hits |-> <<>>, filter |-> Null, exists |-> TRUE]
StoreIdle == StoreStart({})

\* The reads leave the collection as it is: a run is some stores and one read.
NoReadYet == vstore.call \in {"none", "store_file_manifest", "delete_collection"}

\* store_file_manifest(files); get_collection may raise.
StoreManifest ==
    /\ NoReadYet
    /\ vstore.stores < MaxStores
    /\ \E files \in ManifestLists :
        \/ vstore' = [Called(vstore, "store_file_manifest", "none", FALSE) EXCEPT
                         !.records = upsert(vstore.records, ManifestRecord(files)),
                         !.stores = @ + 1, !.stored = files]
        \/ vstore' = Called(vstore, "store_file_manifest", "get_collection", TRUE)
    /\ UNCHANGED <<chat, dl, selVars, ingestVars, agentVars, streamVars, moreVars>>

\* get_file_manifest: get_collection is called before the try; inside it, the
\* record is fetched by its id and its manifest_json decoded; any exception
\* there gives [].
GetManifest ==
    /\ NoReadYet
    /\ LET found == {r \in vstore.records : r.id = ManifestId}
       IN \/ vstore' = Called(vstore, "get_file_manifest", "get_collection", TRUE)
          \/ vstore' = Called(vstore, "get_file_manifest", "get", FALSE)
          \/ /\ found = {}
             /\ vstore' = Called(vstore, "get_file_manifest", "not_found", FALSE)
          \/ \E rec \in found, damaged \in BOOLEAN :
                LET text == IF damaged THEN Damaged(rec.manifest_json)
                            ELSE rec.manifest_json
                    loaded == json_loads(text)
                IN vstore' =
                    [Called(vstore, "get_file_manifest",
                            IF damaged THEN "undecodable" ELSE "none", FALSE)
                     EXCEPT !.manifest = IF loaded.ok THEN loaded.value ELSE <<>>]
    /\ UNCHANGED <<chat, dl, selVars, ingestVars, agentVars, streamVars, moreVars>>

\* search_documents: get_collection; the query with the where filter; when that
\* raises, the query without a filter; then the loop that builds the hits.
SearchDocuments ==
    /\ NoReadYet
    /\ \E n_results \in 1..MaxResults, file_name_filter \in {Null} \cup HitNames :
        \/ vstore' = Called(vstore, "search_documents", "get_collection", TRUE)
        \/ \E raw \in Rankings(WhereFilter(vstore.records, file_name_filter), n_results) :
            vstore' = [Called(vstore, "search_documents", "none", FALSE) EXCEPT
                          !.raw = raw, !.hits = SkipManifest(raw),
                          !.filter = file_name_filter]
        \/ \E raw \in Rankings(vstore.records, n_results) :
            vstore' = [Called(vstore, "search_documents", "query", FALSE) EXCEPT
                          !.raw = raw, !.hits = SkipManifest(raw),
                          !.filter = file_name_filter]
        \/ vstore' = Called(vstore, "search_documents", "retry", TRUE)
    /\ UNCHANGED <<chat, dl, selVars, ingestVars, agentVars, streamVars, moreVars>>

NextStore == StoreManifest \/ GetManifest \/ SearchDocuments

\* delete_collection: the collection and everything in it are removed; an
\* exception of the client is swallowed.
DeleteCollection ==
    /\ NoReadYet
    /\ vstore.exists
    /\ vstore' = [vstore EXCEPT !.call = "delete_collection", !.fault = "none",
                                !.raised = FALSE, !.records = {}, !.stores = 0,
                                !.stored = <<>>, !.exists = FALSE]
    /\ UNCHANGED <<chat, dl, selVars, ingestVars, agentVars, streamVars, moreVars>>

NextStoreDelete == NextStore \/ DeleteCollection

(***************************************************************************)
(* The downloader: services/google_drive.py download_files_parallel        *)
(***************************************************************************)
MaxDownloads == 3       \* longest list of files handed to the downloader

\* (file, content) and (file, None)
Downloaded(file, outcome) == [file |-> file, has_content |-> outcome = "ok"]
NoDownload == [file |-> [id |-> 0, size |-> NoSize], has_content |-> FALSE]

\* _executor = ThreadPoolExecutor(max_workers=10), shared by every call
max_workers == 10

\* One download_with_semaphore(file) coroutine: "waiting" for the semaphore,
\* "downloading" inside wait_for, "done" once it has returned its pair; outcome
\* is how the download ended ("ok", "timeout", "exception"). fetch is the
\* blocking call _sync_download handed to _executor: "none", "queued" (no thread
\* of the pool is free), "executing", "returned", "cancelled".
NewTask == [pc |-> "waiting", outcome |-> "none", result |-> NoDownload, fetch |-> "none"]

\* The blocking download calls a pool thread is running.
Executing(tasks) == {k \in 1..Len(tasks) : tasks[k].fetch = "executing"}

\* run_in_executor(_executor, ...): the call starts when one of the pool's
\* threads is free.
Submit(tasks) == IF Cardinality(Executing(tasks)) < max_workers THEN "executing" ELSE "queued"

\* A pool thread that has finished a call takes the oldest queued one.
StartQueued(tasks) ==
    LET queued == {k \in 1..Len(tasks) : tasks[k].fetch = "queued"}
    IN IF queued = {} \/ Cardinality(Executing(tasks)) >= max_workers THEN tasks
       ELSE LET first == CHOOSE k \in queued : \A o \in queued : k <= o
            IN [tasks EXCEPT ![first].fetch = "executing"]

DownloadStart(files, max_concurrent) ==
    dl = [files |-> files, max_concurrent |-> max_concurrent,
          tasks |-> [i \in 1..Len(files) |-> NewTask],
          completed |-> 0, returned |-> FALSE, results |-> <<>>]
DownloadIdle ==
    dl = [files |-> <<>>, max_concurrent |-> 1, tasks |-> <<>>, completed |-> 0,
          returned |-> TRUE, results |-> <<>>]

\* async with semaphore: entered while fewer than max_concurrent tasks hold it.
Acquire(i) ==
    /\ dl.tasks[i].pc = "waiting"
    /\ Cardinality({k \in 1..Len(dl.files) : dl.tasks[k].pc = "downloading"})
          < dl.max_concurrent
    /\ dl' = [dl EXCEPT !.tasks[i].pc = "downloading",
                         !.tasks[i].fetch = Submit(dl.tasks)]
    /\ UNCHANGED <<chat, vstore, selVars, ingestVars, agentVars, streamVars, moreVars>>

\* wait_for(download_file(...), timeout=60) returns the content, or raises
\* TimeoutError, or raises another exception: each except clause makes the pair
\* (file, None). Then completed += 1 and the task returns its pair. The call
\* has returned or raised in its thread when the task gets content or an
\* exception; on a timeout wait_for cancels the awaited future only: a call
\* still queued is dropped, a call a thread is running goes on.
Download(i) ==
    /\ dl.tasks[i].pc = "downloading"
    /\ \E outcome \in {"ok", "timeout", "exception"} :
        /\ outcome # "timeout" => dl.tasks[i].fetch = "executing"
        /\ LET fetch == IF outcome # "timeout" THEN "returned"
                        ELSE IF dl.tasks[i].fetch = "queued" THEN "cancelled"
                        ELSE dl.tasks[i].fetch
               tasks == [dl.tasks EXCEPT ![i] =
                            [pc |-> "done", outcome |-> outcome,
                             result |-> Downloaded(dl.files[i], outcome),
                             fetch |-> fetch]]
           IN dl' = [dl EXCEPT !.tasks = StartQueued(tasks), !.completed = @ + 1]
    /\ UNCHANGED <<chat, vstore, selVars, ingestVars, agentVars, streamVars, moreVars>>

\* _sync_download of a task that timed out returns or raises in its thread.
ThreadReturns(i) ==
    /\ dl.tasks[i].pc = "done"
    /\ dl.tasks[i].fetch = "executing"
    /\ dl' = [dl EXCEPT !.tasks = StartQueued([dl.tasks EXCEPT ![i].fetch = "returned"])]
    /\ UNCHANGED <<chat, vstore, selVars, ingestVars, agentVars, streamVars, moreVars>>

\* Mutant of gather: only the pairs that have content are returned.
gather_with_content(tasks) ==
    SelectSeq([i \in 1..Len(tasks) |-> tasks[i].result], LAMBDA r : r.has_content)

\* asyncio.gather(*tasks): the results of the tasks in the order of the tasks.
gather(tasks) == [i \in 1..Len(tasks) |-> tasks[i].result]

\* return await asyncio.gather(*tasks), once every task has returned.
Gather ==
    /\ ~dl.returned
    /\ \A i \in 1..Len(dl.files) : dl.tasks[i].pc = "done"
    /\ dl' = [dl EXCEPT !.returned = TRUE, !.results = gather(dl.tasks)]
    /\ UNCHANGED <<chat, vstore, selVars, ingestVars, agentVars, streamVars, moreVars>>

NextDownload ==
    \/ \E i \in 1..Len(dl.files) : Acquire(i) \/ Download(i) \/ ThreadReturns(i)
    \/ Gather

(***************************************************************************)
(* The chunker: services/ingestion.py chunk_text                           *)
(***************************************************************************)
CHUNK_SIZE == 1000
CHUNK_OVERLAP == 200
MaxText == 9            \* longest text of the small inputs
MaxWindow == 4          \* largest chunk_size of the small inputs

\* A text whose characters are all different: the character at index i is i.
TextOf(n) == [i \in 1..n |-> i]

\* text[start:end] of Python, indices from 0, end cut at len(text).
Slice(text, start, end) ==
    SubSeq(text, start + 1, IF end < Len(text) THEN end ELSE Len(text))

\* Mutant of NextStart: the next chunk starts where this one ended.
NextStartAtEnd(end, overlap) == end

\* start = end - overlap
NextStart(end, overlap) == end - overlap

ChunkStart(text, chunk_size, overlap) ==
    chunker = [text |-> text, chunk_size |-> chunk_size, overlap |-> overlap,
               pc |-> "call", start |-> 0, chunks |-> <<>>]
ChunkIdle ==
    chunker = [text |-> <<>>, chunk_size |-> 1, overlap |-> 0,
               pc |-> "returned", start |-> 0, chunks |-> << <<>> >>]

\* if len(text) <= chunk_size: return [text]; otherwise chunks = [], start = 0.
chunk_text_enter ==
    /\ chunker.pc = "call"
    /\ chunker' = IF Len(chunker.text) <= chunker.chunk_size
                  THEN [chunker EXCEPT !.pc = "returned", !.chunks = <<chunker.text>>]
                  ELSE [chunker EXCEPT !.pc = "loop"]
    /\ UNCHANGED <<chat, vstore, dl, rag, up, selVars, ingestVars, agentVars, streamVars, lister, gate>>

\* One test of `while start < len(text)`: the body, or return chunks.
chunk_text_loop ==
    /\ chunker.pc = "loop"
    /\ chunker' =
         IF chunker.start < Len(chunker.text)
         THEN LET end == chunker.start + chunker.chunk_size
                  chunk == Slice(chunker.text, chunker.start, end)
              IN [chunker EXCEPT !.chunks = Append(@, chunk),
                                 !.start = NextStart(end, chunker.overlap)]
         ELSE [chunker EXCEPT !.pc = "returned"]
    /\ UNCHANGED <<chat, vstore, dl, rag, up, selVars, ingestVars, agentVars, streamVars, lister, gate>>

NextChunk == chunk_text_enter \/ chunk_text_loop

(***************************************************************************)
(* The RAG agent loop with its conversation: agent/hybrid_agent.py         *)
(* _chat_chroma_rag and _stream_chroma_rag                                 *)
(***************************************************************************)
MaxHistory == 2         \* most earlier messages of the conversation

\* One message of the conversation sent to the model. kind: "prompt" is
\* RAG_SYSTEM_PROMPT + "\n\nUser: " + message, "history" the n-th earlier message,
\* "tool_call" the model's n-th answer, "tool_result" the text
\* "Tool result: " + json.dumps(tool_result) of the n-th tool call,
\* "final_prompt" the request for the final answer.
Turn(role, kind, n) == [role |-> role, kind |-> kind, n |-> n]
PromptTurn == Turn("user", "prompt", 0)

\* history as chat.py hands it over: the earlier messages of the conversation,
\* oldest first, user and assistant in turn, without the message just added.
\* role = "user" if msg["role"] == "user" else "model"
HistoryTurns(n) ==
    [i \in 1..n |-> Turn(IF i % 2 = 1 THEN "user" ELSE "model", "history", i)]

\* messages = [prompt]; for msg in history: messages.append(...)
FirstMessages(n) == <<PromptTurn>> \o HistoryTurns(n)

\* start_chat(history=messages[:-1] if len(messages) > 1 else []) and
\* send_message(messages[-1]["parts"])
ModelCall(messages) ==
    [history |-> IF Len(messages) > 1 THEN SubSeq(messages, 1, Len(messages) - 1)
                 ELSE <<>>,
     turn |-> messages[Len(messages)]]
NoModelCall == [history |-> <<>>, turn |-> Turn("none", "none", 0)]

\* Mutant of InLoop: one iteration more.
InLoopOneMore(calls) == calls <= max_iterations

\* for _ in range(max_iterations): every iteration makes one model call.
InLoop(calls) == calls < max_iterations

\* rag.pc: "loop" (the for loop), "final" (_stream_chroma_rag after the loop),
\* "streaming" (the final generation is being delivered), "returned", "raised".
\* calls: model calls made; tools_run: tools executed; sent: the last model
\* call; delivered: the content returned (chat) or the fragments yielded (stream).
RagStart(variant, n) ==
    rag = [variant |-> variant, history |-> n, messages |-> FirstMessages(n),
           pc |-> "loop", calls |-> 0, tools_run |-> 0, sent |-> NoModelCall,
           delivered |-> <<>>]
RagIdle ==
    rag = [variant |-> "chat", history |-> 0, messages |-> <<>>,
           pc |-> "idle", calls |-> 0, tools_run |-> 0, sent |-> NoModelCall,
           delivered |-> <<>>]

\* One iteration of the loop: the model is called with the conversation and
\* answers r. A tool call is executed and both texts are appended; any other
\* answer is returned (chat) or dropped by the break (stream).
RagIterate ==
    /\ rag.pc = "loop"
    /\ InLoop(rag.calls)
    /\ \E r \in Responses :
        LET called == [rag EXCEPT !.calls = @ + 1, !.sent = ModelCall(rag.messages)]
        IN rag' =
            IF _parse_tool_call(r).some
            THEN [called EXCEPT
                    !.tools_run = @ + 1,
                    !.messages = @ \o <<Turn("model", "tool_call", called.calls),
                                        Turn("user", "tool_result", called.calls)>>]
            ELSE IF rag.variant = "chat"
                 THEN [called EXCEPT !.pc = "returned", !.delivered = <<r.txt>>]
                 ELSE [called EXCEPT !.pc = "final"]
    /\ UNCHANGED <<chat, vstore, dl, chunker, up, selVars, ingestVars, agentVars, streamVars, lister, gate>>

\* The model call of an iteration raises, or the tool does: the exception leaves
\* the method.
RagRaises ==
    /\ rag.pc = "loop"
    /\ InLoop(rag.calls)
    /\ \/ rag' = [rag EXCEPT !.calls = @ + 1, !.sent = ModelCall(rag.messages),
                             !.pc = "raised"]
       \/ rag' = [rag EXCEPT !.calls = @ + 1, !.sent = ModelCall(rag.messages),
                             !.tools_run = @ + 1, !.pc = "raised"]
    /\ UNCHANGED <<chat, vstore, dl, chunker, up, selVars, ingestVars, agentVars, streamVars, lister, gate>>

\* The loop has run max_iterations times: _chat_chroma_rag returns the apology,
\* _stream_chroma_rag goes on to the statements after the loop.
RagLoopEnd ==
    /\ rag.pc = "loop"
    /\ ~InLoop(rag.calls)
    /\ rag' = IF rag.variant = "chat"
              THEN [rag EXCEPT !.pc = "returned", !.delivered = <<Apology>>]
              ELSE [rag EXCEPT !.pc = "final"]
    /\ UNCHANGED <<chat, vstore, dl, chunker, up, selVars, ingestVars, agentVars, streamVars, lister, gate>>

\* _stream_final in its thread: the final prompt is appended and the model is
\* called with stream=True.
RagStreamFinal ==
    /\ rag.pc = "final"
    /\ LET messages == Append(rag.messages, Turn("user", "final_prompt", 0))
       IN rag' = [rag EXCEPT !.messages = messages, !.calls = @ + 1,
                             !.sent = ModelCall(messages), !.pc = "streaming"]
    /\ UNCHANGED <<chat, vstore, dl, chunker, up, selVars, ingestVars, agentVars, streamVars, lister, gate>>

\* ("text", chunk.text) arrives and is yielded.
RagYield ==
    /\ rag.pc = "streaming"
    /\ Len(rag.delivered) < MaxChunks
    /\ rag' = [rag EXCEPT !.delivered = Append(@, "fragment")]
    /\ UNCHANGED <<chat, vstore, dl, chunker, up, selVars, ingestVars, agentVars, streamVars, lister, gate>>

\* ("done", None) ends the generator; ("error", text) is yielded as
\* "\n\nError: " + text and ends it.
RagStreamEnd ==
    /\ rag.pc = "streaming"
    /\ \/ rag' = [rag EXCEPT !.pc = "returned"]
       \/ rag' = [rag EXCEPT !.pc = "returned", !.delivered = Append(@, "Error")]
    /\ UNCHANGED <<chat, vstore, dl, chunker, up, selVars, ingestVars, agentVars, streamVars, lister, gate>>

NextRag ==
    \/ RagIterate \/ RagRaises \/ RagLoopEnd
    \/ RagStreamFinal \/ RagYield \/ RagStreamEnd

(***************************************************************************)
(* The uploader: services/gemini_service.py upload_files_to_gemini         *)
(***************************************************************************)
MaxUploads == 3         \* longest list of (file, content) pairs handed to the uploader

\* files_with_content: the pair at index i is file i with content or with None.
UploadInputs == UNION {[1..n -> BOOLEAN] : n \in 0..MaxUploads}

\* The descriptor a task returns: gemini_uri is the handle, or None after a failure.
Uploaded(id, ok) == [id |-> id, gemini_uri |-> IF ok THEN "uri" ELSE Null]

\* Mutant of UploadTasks: a task for every pair, with content or not.
UploadTasksAll(has_content) ==
    [k \in 1..Len(has_content) |-> [id |-> k, pc |-> "waiting", result |-> Uploaded(0, FALSE)]]

\* tasks: one upload_with_semaphore coroutine per pair with content, in input
\* order. pc: "waiting" for the semaphore, "uploading" (inside
\* upload_file_to_gemini), "done".
UploadTasks(has_content) ==
    LET ids == SelectSeq([i \in 1..Len(has_content) |-> i], LAMBDA i : has_content[i])
    IN [k \in 1..Len(ids) |-> [id |-> ids[k], pc |-> "waiting", result |-> Uploaded(0, FALSE)]]

\* What ingest_folder does with the descriptors: "accepted" (the fast-path
\* commit, with the file_count it assigns) or "fallback" (on to the RAG path).
NoDecision == [result |-> "none", file_count |-> 0, store_raised |-> FALSE]

\* started: the files whose upload has begun, in the order they began.
UploadStart(has_content, max_concurrent) ==
    up = [files |-> has_content, max_concurrent |-> max_concurrent,
          tasks |-> UploadTasks(has_content), started |-> <<>>,
          returned |-> FALSE, results |-> <<>>, decision |-> NoDecision]
UploadIdle ==
    up = [files |-> <<>>, max_concurrent |-> 1, tasks |-> <<>>, started |-> <<>>,
          returned |-> TRUE, results |-> <<>>, decision |-> NoDecision]

InFlight(tasks) == {k \in 1..Len(tasks) : tasks[k].pc = "uploading"}

\* Mutant of SemaphoreFree: the semaphore never makes a task wait.
SemaphoreAlwaysFree(tasks, max_concurrent) == TRUE

\* asyncio.Semaphore(max_concurrent): free while fewer tasks are inside.
SemaphoreFree(tasks, max_concurrent) == Cardinality(InFlight(tasks)) < max_concurrent

\* async with semaphore, then the upload begins. gather starts the tasks in
\* list order, each runs without a pause up to the semaphore, and the semaphore
\* wakes its waiters in the order they arrived: the task that enters is the
\* first one still waiting.
UploadAcquire(k) ==
    /\ up.tasks[k].pc = "waiting"
    /\ \A o \in 1..(k - 1) : up.tasks[o].pc # "waiting"
    /\ SemaphoreFree(up.tasks, up.max_concurrent)
    /\ up' = [up EXCEPT !.tasks[k].pc = "uploading",
                        !.started = Append(@, up.tasks[k].id)]
    /\ UNCHANGED <<chat, vstore, dl, chunker, rag, selVars, ingestVars, agentVars, streamVars, lister, gate>>

\* upload_file_to_gemini returns the uri, or raises once _sync_upload_file has
\* given up (5 attempts for connection errors, at once for others): except
\* Exception makes the descriptor without handle. The semaphore is released.
UploadEnds(k) ==
    /\ up.tasks[k].pc = "uploading"
    /\ \E ok \in BOOLEAN :
        up' = [up EXCEPT !.tasks[k].pc = "done",
                         !.tasks[k].result = Uploaded(up.tasks[k].id, ok)]
    /\ UNCHANGED <<chat, vstore, dl, chunker, rag, selVars, ingestVars, agentVars, streamVars, lister, gate>>

\* results = await asyncio.gather(*tasks); return results
UploadGather ==
    /\ ~up.returned
    /\ \A k \in 1..Len(up.tasks) : up.tasks[k].pc = "done"
    /\ up' = [up EXCEPT !.returned = TRUE, !.results = gather(up.tasks)]
    /\ UNCHANGED <<chat, vstore, dl, chunker, rag, selVars, ingestVars, agentVars, streamVars, lister, gate>>

NextUpload ==
    \/ \E k \in 1..Len(up.tasks) : UploadAcquire(k) \/ UploadEnds(k)
    \/ UploadGather

\* ingest_folder with the descriptors the uploader returned: the success rate
\* over the descriptors, then store_file_manifest (which may raise into the
\* inner except) and file_count = len(successful_uploads), or the fallback.
FastPathDecision ==
    /\ up.returned
    /\ up.decision = NoDecision
    /\ LET gemini_files == up.results
           successful_uploads == SuccessfulUploads(gemini_files)
       IN IF AcceptFastPath(gemini_files)
          THEN \/ up' = [up EXCEPT !.decision =
                            [result |-> "accepted", file_count |-> Len(successful_uploads),
                             store_raised |-> FALSE]]
               \/ up' = [up EXCEPT !.decision =
                            [result |-> "fallback", file_count |-> 0, store_raised |-> TRUE]]
          ELSE up' = [up EXCEPT !.decision =
                            [result |-> "fallback", file_count |-> 0, store_raised |-> FALSE]]
    /\ UNCHANGED <<chat, vstore, dl, chunker, rag, selVars, ingestVars, agentVars, streamVars, lister, gate>>

NextFastPath == NextUpload \/ FastPathDecision

(***************************************************************************)
(* The drive lister: services/google_drive.py list_files                   *)
(***************************************************************************)
MaxSubfolders == 3      \* most folders below the root
BATCH == 10

\* A drive tree: folder 0 is the root, parent[d] is the folder that holds folder
\* d. Every folder holds one file of a supported type and one of another type.
DriveTrees ==
    UNION {{p \in [1..n -> 0..(n - 1)] : \A d \in 1..n : p[d] < d} : n \in 0..MaxSubfolders}

DriveFile(dir, supported) == [dir |-> dir, supported |-> supported]

\* The items files().list returns for folder dir: its files, then its folders.
Children(parent, dir) ==
    SelectSeq([d \in 1..Len(parent) |-> d], LAMBDA d : parent[d] = dir)

\* Mutant of _list_single_folder: the test of the mime type is missing.
_list_single_folder_any_type(parent, dir) ==
    [files |-> <<DriveFile(dir, TRUE), DriveFile(dir, FALSE)>>,
     subfolders |-> Children(parent, dir)]

\* _list_single_folder: (files, subfolders) of one folder over all its pages;
\* folders go to subfolders, files of a type in SUPPORTED_MIME_TYPES to files,
\* anything else is skipped.
_list_single_folder(parent, dir) ==
    [files |-> SelectSeq(<<DriveFile(dir, TRUE), DriveFile(dir, FALSE)>>,
                         LAMBDA f : f.supported),
     subfolders |-> Children(parent, dir)]

\* lister.pc: "call", "loop" (while subfolders), "returned", "raised". failed:
\* the folders whose listing raised.
ListStart(parent, recursive) ==
    lister = [parent |-> parent, recursive |-> recursive, pc |-> "call",
              all_files |-> <<>>, subfolders |-> <<>>, failed |-> {}]
ListIdle ==
    lister = [parent |-> <<>>, recursive |-> FALSE, pc |-> "idle",
              all_files |-> <<>>, subfolders |-> <<>>, failed |-> {}]

\* list_files up to the loop: the listing of the root raises out of list_files,
\* or gives the first files and subfolders.
ListRoot ==
    /\ lister.pc = "call"
    /\ \/ lister' = [lister EXCEPT !.pc = "raised", !.failed = {0}]
       \/ LET root == _list_single_folder(lister.parent, 0)
          IN lister' = [lister EXCEPT
                !.all_files = root.files,
                !.subfolders = root.subfolders,
                !.pc = IF lister.recursive /\ root.subfolders # <<>>
                       THEN "loop" ELSE "returned"]
    /\ UNCHANGED <<chat, vstore, dl, chunker, rag, up, gate, selVars, ingestVars, agentVars, streamVars>>

RECURSIVE Collect(_, _, _, _)
\* for result in results: a member that raised is skipped, the files and the
\* subfolders of the others are appended.
Collect(parent, batch, failing, acc) ==
    IF batch = <<>> THEN acc
    ELSE LET dir == Head(batch)
             result == _list_single_folder(parent, dir)
         IN Collect(parent, Tail(batch), failing,
                    IF dir \in failing THEN acc
                    ELSE [all_files |-> acc.all_files \o result.files,
                          subfolders |-> acc.subfolders \o result.subfolders])

\* One round of the loop: the first 10 subfolders are listed together
\* (gather with return_exceptions=True); any of the listings may raise.
ListBatch ==
    /\ lister.pc = "loop"
    /\ LET n == IF Len(lister.subfolders) < BATCH THEN Len(lister.subfolders) ELSE BATCH
           batch == SubSeq(lister.subfolders, 1, n)
           rest == SubSeq(lister.subfolders, n + 1, Len(lister.subfolders))
       IN \E failing \in SUBSET {batch[k] : k \in 1..n} :
            LET acc == Collect(lister.parent, batch, failing,
                               [all_files |-> lister.all_files, subfolders |-> rest])
            IN lister' = [lister EXCEPT
                    !.all_files = acc.all_files,
                    !.subfolders = acc.subfolders,
                    !.failed = @ \cup failing,
                    !.pc = IF acc.subfolders = <<>> THEN "returned" ELSE "loop"]
    /\ UNCHANGED <<chat, vstore, dl, chunker, rag, up, gate, selVars, ingestVars, agentVars, streamVars>>

NextList == ListRoot \/ ListBatch

(***************************************************************************)
(* Specifications                                                          *)
(***************************************************************************)
\* ---- chat.py: send_message and send_message_stream, the request as a whole ----

MaxRequests == 2    \* most chat requests made one after the other

FolderStatuses == {"PENDING", "INDEXING", "READY", "FAILED"}

\* Mutant of Ready: every status but FAILED is served.
NotFailed(status) == status # "FAILED"

\* the negation of `folder.status != FolderStatus.READY`
Ready(status) == status = "READY"

\* A request: `pc` is the await the handler is at; row is the folder row of the
\* request's folder_id as the database holds it; seen is folder.status of the
\* object the handler loaded; conversations, messages, model_calls and searches
\* count the rows created and the calls made, over all requests.
GateStart(exists, status) ==
    [pc |-> "idle", route |-> "send", row |-> [exists |-> exists, status |-> status],
     seen |-> Null, conversation_id |-> "none", code |-> 0, requests |-> 0,
     conversations |-> 0, messages |-> 0, model_calls |-> 0, searches |-> 0]

GateIdle == gate = GateStart(FALSE, "PENDING")

\* The conversation ids a request can carry: none, one that matches no row, and
\* once a conversation exists, its id.
ConversationIds(g) ==
    {"none", "unknown"} \cup (IF g.conversations > 0 THEN {"known"} ELSE {})

\* The ingestion jobs and the drive handlers commit a new status to the row
\* while chat requests are served.
StatusCommitted ==
    /\ gate.row.exists
    /\ \E s \in FolderStatuses \ {gate.row.status} :
        gate' = [gate EXCEPT !.row.status = s]
    /\ UNCHANGED <<chat, vstore, dl, chunker, rag, up, lister, selVars, ingestVars, agentVars, streamVars>>

\* Both routes: the folder lookup, 404 when there is no row, 400 when the
\* status loaded is not READY; else on to the conversation.
GateRequest ==
    /\ gate.pc \in {"idle", "done", "rejected"}
    /\ gate.requests < MaxRequests
    /\ \E route \in {"send", "stream"}, conversation_id \in ConversationIds(gate) :
        LET request == [gate EXCEPT !.route = route,
                                    !.conversation_id = conversation_id,
                                    !.requests = @ + 1,
                                    !.seen = IF gate.row.exists THEN gate.row.status ELSE Null]
        IN gate' = IF ~gate.row.exists
                   THEN [request EXCEPT !.pc = "rejected", !.code = 404]
                   ELSE IF ~Ready(gate.row.status)
                   THEN [request EXCEPT !.pc = "rejected", !.code = 400]
                   ELSE [request EXCEPT !.pc = "conversation", !.code = 0]
    /\ UNCHANGED <<chat, vstore, dl, chunker, rag, up, lister, selVars, ingestVars, agentVars, streamVars>>

\* The conversation: looked up when an id came with the request (404 when it
\* matches nothing), created and committed otherwise.
GateConversation ==
    /\ gate.pc = "conversation"
    /\ gate' = IF gate.conversation_id = "unknown"
               THEN [gate EXCEPT !.pc = "rejected", !.code = 404]
               ELSE IF gate.conversation_id = "known"
               THEN [gate EXCEPT !.pc = "message"]
               ELSE [gate EXCEPT !.pc = "message", !.conversations = @ + 1]
    /\ UNCHANGED <<chat, vstore, dl, chunker, rag, up, lister, selVars, ingestVars, agentVars, streamVars>>

\* The user message is added and committed, the history read.
GateUserMessage ==
    /\ gate.pc = "message"
    /\ gate' = [gate EXCEPT !.pc = "agent", !.messages = @ + 1]
    /\ UNCHANGED <<chat, vstore, dl, chunker, rag, up, lister, selVars, ingestVars, agentVars, streamVars>>

\* HybridAgent.chat or stream_chat: the model is called, with or without a
\* search before; the assistant message is saved unless something raised.
GateAgent ==
    /\ gate.pc = "agent"
    /\ \E searched \in 0..1, saved \in BOOLEAN :
        gate' = [gate EXCEPT !.pc = "done",
                             !.model_calls = @ + 1,
                             !.searches = @ + searched,
                             !.messages = IF saved THEN @ + 1 ELSE @,
                             !.code = IF saved \/ gate.route = "stream" THEN 200 ELSE 500]
    /\ UNCHANGED <<chat, vstore, dl, chunker, rag, up, lister, selVars, ingestVars, agentVars, streamVars>>

NextGate ==
    \/ StatusCommitted
    \/ GateRequest
    \/ GateConversation
    \/ GateUserMessage
    \/ GateAgent

MoreIdle == ChunkIdle /\ RagIdle /\ UploadIdle /\ ListIdle /\ GateIdle
ServiceIdle == ChatIdle /\ StoreIdle /\ DownloadIdle /\ MoreIdle

InitSelector ==
    /\ selFiles \in SelInputs
    /\ selResult = "unset"
    /\ IngestIdle /\ AgentIdle /\ StreamIdle /\ ServiceIdle
NextSelector == SelectPath
SpecSelector == InitSelector /\ [][NextSelector]_vars

InitIngestAll == InitIngest /\ SelIdle /\ AgentIdle /\ StreamIdle /\ ServiceIdle
SpecIngest == InitIngestAll /\ [][NextIngest]_vars
SpecLifecycle == InitIngestAll /\ [][NextLifecycle]_vars

\* The coroutine is resumed whenever the model call or the tool has answered.
InitAgent == agent = AgentStart /\ SelIdle /\ IngestIdle /\ StreamIdle /\ ServiceIdle
SpecAgent == InitAgent /\ [][NextAgent]_vars /\ WF_vars(NextAgent)

\* The event loop keeps resuming the consumer while the client reads the stream.
InitStream ==
    /\ \E variant \in {"gemini_files", "chroma"} : StreamStart(variant)
    /\ SelIdle /\ IngestIdle /\ AgentIdle /\ ServiceIdle
SpecStream == InitStream /\ [][NextStream]_vars /\ WF_vars(ConsumerLoop)

\* The stream with a client that may go away. The worker is a thread of its
\* own: it goes on whenever it can, whether the event loop runs or not.
NextDisconnect == NextStream \/ ClientDisconnect
SpecDisconnect == InitStream /\ [][NextDisconnect]_vars /\ WF_vars(WorkerNext)

InitChat ==
    /\ \E c \in ChatInputs : ChatStart(c)
    /\ StoreIdle /\ DownloadIdle /\ MoreIdle
    /\ SelIdle /\ IngestIdle /\ AgentIdle /\ StreamIdle
SpecChat == InitChat /\ [][NextChat]_vars

InitStore ==
    /\ \E chunks \in ChunkSets : StoreStart(chunks)
    /\ ChatIdle /\ DownloadIdle /\ MoreIdle
    /\ SelIdle /\ IngestIdle /\ AgentIdle /\ StreamIdle
SpecStore == InitStore /\ [][NextStore]_vars

\* The store with collections that are deleted, as reindex_folder and
\* delete_folder do.
SpecStoreDelete == InitStore /\ [][NextStoreDelete]_vars

InitDownload ==
    /\ \E n \in 0..MaxDownloads, max_concurrent \in 1..2 :
          DownloadStart(Block(n, Small, 0), max_concurrent)
    /\ ChatIdle /\ StoreIdle /\ MoreIdle
    /\ SelIdle /\ IngestIdle /\ AgentIdle /\ StreamIdle
SpecDownload == InitDownload /\ [][NextDownload]_vars

\* chunk_text is synchronous code: once called it runs to its return. The inputs
\* are the small texts with every window and overlap 0 <= overlap < chunk_size,
\* and texts around one and two windows with the default arguments.
InitChunk ==
    /\ \/ \E n \in 0..MaxText, chunk_size \in 1..MaxWindow :
            \E overlap \in 0..(chunk_size - 1) :
                ChunkStart(TextOf(n), chunk_size, overlap)
       \/ \E n \in {CHUNK_SIZE, CHUNK_SIZE + 1, 2 * CHUNK_SIZE - CHUNK_OVERLAP - 100,
                     2 * CHUNK_SIZE - CHUNK_OVERLAP, 2 * CHUNK_SIZE} :
            ChunkStart(TextOf(n), CHUNK_SIZE, CHUNK_OVERLAP)
    /\ RagIdle /\ UploadIdle /\ ListIdle /\ GateIdle
    /\ ChatIdle /\ StoreIdle /\ DownloadIdle
    /\ SelIdle /\ IngestIdle /\ AgentIdle /\ StreamIdle
SpecChunk == InitChunk /\ [][NextChunk]_vars /\ WF_vars(NextChunk)

InitRag ==
    /\ \E variant \in {"chat", "stream"}, n \in 0..MaxHistory : RagStart(variant, n)
    /\ ChunkIdle /\ UploadIdle /\ ListIdle /\ GateIdle
    /\ ChatIdle /\ StoreIdle /\ DownloadIdle
    /\ SelIdle /\ IngestIdle /\ AgentIdle /\ StreamIdle
SpecRag == InitRag /\ [][NextRag]_vars

InitUpload ==
    /\ \E has_content \in UploadInputs, max_concurrent \in 1..2 :
          UploadStart(has_content, max_concurrent)
    /\ ChunkIdle /\ RagIdle /\ ListIdle /\ GateIdle
    /\ ChatIdle /\ StoreIdle /\ DownloadIdle
    /\ SelIdle /\ IngestIdle /\ AgentIdle /\ StreamIdle
SpecUpload == InitUpload /\ [][NextUpload]_vars

InitList ==
    /\ \E parent \in DriveTrees, recursive \in BOOLEAN : ListStart(parent, recursive)
    /\ ChunkIdle /\ RagIdle /\ UploadIdle /\ GateIdle
    /\ ChatIdle /\ StoreIdle /\ DownloadIdle
    /\ SelIdle /\ IngestIdle /\ AgentIdle /\ StreamIdle
SpecList == InitList /\ [][NextList]_vars

InitGate ==
    /\ SelIdle /\ IngestIdle /\ AgentIdle /\ StreamIdle
    /\ ChatIdle /\ StoreIdle /\ DownloadIdle
    /\ ChunkIdle /\ RagIdle /\ UploadIdle /\ ListIdle
    /\ \E exists \in BOOLEAN, status \in FolderStatuses :
        /\ (~exists => status = "PENDING")
        /\ gate = GateStart(exists, status)

SpecGate == InitGate /\ [][NextGate]_vars

\* The uploader followed by the use ingest_folder makes of what it returns.
SpecFastPath == InitUpload /\ [][NextFastPath]_vars

FastPathDecided ==
    /\ last.kind = "folder" /\ last.use_fast_path
    /\ last.result \in {"gemini_files", "fallback"}

\* The acceptance rule in the words of the claim: not raised, a success fraction
\* of at least one half, at least one success.
RatioAccepts(r) ==
    ~r.raised /\ r.uploaded >= 1 /\ 2 * r.uploaded >= r.downloaded

\* C2 as stated: a fast-path job leaves the folder in native-files mode exactly
\* when the upload success fraction is >= 0.5 with at least one success, and in
\* every other case its run ends with the folder in vector-store mode without
\* descriptors.
C2_FallbackEndsVectorStore ==
    /\ FastPathDecided => (last.result = "gemini_files" <=> RatioAccepts(last))
    /\ (last.kind = "folder" /\ last.use_fast_path /\ last.result \in {"chroma", "failed"})
          => (folder.index_mode = "chroma" /\ folder.gemini_files.null)

\* C2 amended, the job's decision: a fast-path job commits the native-files
\* result (READY) exactly when the uploader did not raise, at least half of the
\* attempted uploads have a handle, at least one has, and storing the manifest
\* did not raise; in every other case it goes on to the RAG path.
C2_Decision ==
    /\ FastPathDecided =>
        /\ last.result = "gemini_files" <=> (RatioAccepts(last) /\ ~last.store_raised)
        /\ last.result = "gemini_files" => folder.status = "READY"
        /\ last.result = "fallback" => \E j \in Jobs : jobs[j].pc = "process"
    /\ (last.kind = "folder" /\ last.use_fast_path) =>
          last.result \in {"gemini_files", "fallback", "chroma", "failed"}

\* C2 amended, the end of the RAG path after a fallback: the job ends FAILED when
\* the RAG path raises and READY otherwise; its READY commit leaves the
\* descriptor column as it is (the upload results are not stored, descriptors
\* already on the row are not cleared) and writes vector-store mode unless the
\* row the job loaded already had it.
C2_FallbackCommit ==
    \A j \in Jobs :
        (/\ jobs[j].pc = "process" /\ jobs[j].use_fast_path
         /\ jobs'[j].pc # "process")
        => /\ jobs'[j].pc = "idle"
           /\ last'.result \in {"chroma", "failed"}
           /\ folder'.gemini_files = folder.gemini_files
           /\ last'.result = "failed" =>
                folder'.status = "FAILED" /\ folder'.index_mode = folder.index_mode
           /\ last'.result = "chroma" =>
                /\ folder'.status = "READY"
                /\ jobs[j].loc.index_mode # "chroma" => folder'.index_mode = "chroma"

\* C2 amended: the decision rule in every state and the fallback's commit in
\* every step.
C2_FastPathAcceptance == []C2_Decision /\ [][C2_FallbackCommit]_vars

\* One of three uploads got a handle: the job left the fast path.
C2_Witness ==
    /\ FastPathDecided
    /\ last.result = "fallback"
    /\ last.downloaded = 3 /\ last.uploaded = 1
    /\ ~last.raised /\ ~last.store_raised

\* C3: a job that finds its folder commits INDEXING as its first step, before
\* any listing, download or upload, and the step in which a job ends leaves the
\* folder READY or FAILED, never PENDING or INDEXING.
C3_Step ==
    \A j \in Jobs :
        /\ (jobs[j].pc = "queued" /\ jobs'[j].pc # "queued" /\ folder.exists)
            => jobs'[j].pc = "started" /\ folder'.status = "INDEXING"
        /\ (jobs'[j].pc \in {"download", "upload", "upload_single", "process"})
            => jobs[j].pc \in {"started", "download", "upload", "upload_single", "process"}
        /\ (jobs[j].pc \notin {"idle", "queued"} /\ jobs'[j].pc = "idle")
            => folder'.status \in {"READY", "FAILED"}
C3_IndexingFirstTerminalLast == [][C3_Step]_vars

\* A job ended by an exception after it had downloaded: the folder is FAILED.
C3_Witness ==
    last.result = "failed" /\ last.downloaded > 0 /\ folder.status = "FAILED"

C5_ReadyHasIndexMode ==
    (folder.exists /\ folder.status = "READY") => folder.index_mode # Null

\* C6: in every reachable state the folder has descriptors only when its index
\* mode is native-files.
C6_DescriptorsOnlyNative ==
    (folder.exists /\ ~folder.gemini_files.null) => folder.index_mode = "gemini_files"

\* A step schedules a job for a folder that exists already: a re-ingestion.
ReIngestion ==
    /\ folder.exists
    /\ \E j \in Jobs : jobs[j].pc = "idle" /\ jobs'[j].pc = "queued"

\* C17: every re-ingestion of an existing folder, by reindex or by linking a
\* FAILED folder again, deletes the vector collection and resets index mode,
\* file count, indexing time and descriptors before the new job starts.
C17_Step ==
    ReIngestion =>
        /\ collection' = NoCollection
        /\ folder'.index_mode = Null
        /\ folder'.file_count = 0
        /\ folder'.indexed_at = Null
        /\ folder'.gemini_files = GfNull
C17_ReIngestionResets == [][C17_Step]_vars

\* An ingest_single_file job has ended after its download gave content.
SingleEnded ==
    /\ last.kind = "file" /\ last.downloaded = 1
    /\ last.result \in {"gemini_files", "chroma", "no_documents", "failed"}

\* C18: ingest_single_file attempts the fast path for exactly the files of at
\* most 10MB, a file of exactly 10MB included, and accepts a successful upload
\* with no ratio threshold.
C18_SingleFileGate ==
    SingleEnded =>
        /\ last.use_fast_path <=> _get_file_size(drive.files[1]) <= MAX_FILE_SIZE_BYTES
        /\ (last.use_fast_path /\ last.uploaded = 1) => last.result = "gemini_files"

\* C19: while the folder stays READY with an index mode, its index mode and
\* its descriptors do not change, whatever link, reindex and job steps
\* interleave.
C19_Step ==
    (/\ folder.exists /\ folder.status = "READY" /\ folder.index_mode # Null
     /\ folder'.status = "READY")
    => /\ folder'.index_mode = folder.index_mode
       /\ folder'.gemini_files = folder.gemini_files
C19_ModeFixedWhileReady == [][C19_Step]_vars

\* C20: once delete_folder has deleted the folder and its collection, no job
\* started earlier writes chunks or a manifest: the collection of a deleted
\* folder never exists again.
C20_DeletedStaysDeleted ==
    folder.deleted => ~collection.exists

(***************************************************************************)
(* Non-streaming RAG chat: properties                                      *)
(***************************************************************************)
\* A response names a tool call: its JSON object has the key "tool".
IsToolCall(r) == r.match = "object" /\ r.has_tool

\* What _chat_chroma_rag has done is in line with the claim: at most 5 model
\* calls; while the loop runs every answer so far was a tool call; an answer
\* without a tool call is the content returned; the apology is returned after
\* exactly 5 tool calls, as a result, with the citations gathered.
C7_State ==
    /\ agent.calls <= 5
    /\ (agent.pc = "loop" /\ agent.calls > 0) => IsToolCall(agent.response)
    /\ agent.pc = "loop" => agent.calls < 5
    /\ agent.pc = "returned" =>
        /\ agent.result.citations = CitationsOrNone(agent.all_citations)
        /\ IF IsToolCall(agent.response)
           THEN agent.calls = 5 /\ agent.tool_calls = 5 /\ agent.result.content = Apology
           ELSE agent.result.content = agent.response.txt

\* C7: _chat_chroma_rag calls the model at most 5 times and always terminates;
\* the first answer without a tool call is returned as the final answer, and
\* after 5 tool calls the fixed apology is returned with the citations gathered
\* so far, as a normal result.
C7_BoundedToolLoop == []C7_State /\ <>(agent.pc \in {"returned", "raised"})

\* Five tool calls, two files cited: the apology is returned with both.
C7_Witness ==
    /\ agent.pc = "returned"
    /\ agent.calls = 5
    /\ agent.result.content = Apology
    /\ agent.result.citations = CitationsOrNone(<<"a.txt", "b.txt">>)

(***************************************************************************)
(* Streaming chat: properties                                              *)
(***************************************************************************)
LoopLeft == consumer.pc \in {"join", "save", "finished"}

\* C8: whatever the interleaving, once the consumer has left its loop after a
\* generation that ended with the done marker, the fragments it yielded are
\* exactly the fragments the worker enqueued, in order.
C8_YieldedEqualsEnqueued ==
    (LoopLeft /\ worker.ended = "done") =>
        consumer.yielded = [i \in 1..worker.sent |-> Text(i)]

\* One step of the consumer in line with the claim: after a timeout it polls
\* again when the worker is alive, without sending anything, and leaves the loop
\* when it is not; the loop is left only on the done marker, on the error marker
\* or after a timeout with the worker gone.
C9_Step ==
    /\ (consumer.pc = "except" /\ consumer'.pc # "except") =>
          IF is_alive(worker)
          THEN consumer'.pc = "get" /\ events' = events
                  /\ consumer'.yielded = consumer.yielded
          ELSE consumer'.pc = "join"
    /\ (consumer.pc = "get" /\ consumer'.pc = "join") =>
          q # <<>> /\ Head(q).type \in {"done", "error"}

\* C9: once the worker thread has terminated the consumer loop terminates: on
\* the done marker, on the error marker, or on a timeout after which the worker
\* is found not alive; a timeout with the worker alive is not an error, the
\* consumer polls again.
C9_ConsumerTerminates ==
    /\ (worker.pc = "exited") ~> LoopLeft
    /\ [][C9_Step]_vars

\* The loop was left on a timeout with the worker gone.
C9_Witness ==
    consumer.pc = "join" /\ worker.pc = "exited" /\ q # <<>>

\* C10: when the generation failed, the finished event stream ends with an error
\* event, has no done event, and no content event carries the failure text.
C10_FailureEndsWithErrorEvent ==
    (worker.ended = "error" /\ consumer.pc = "finished") =>
        /\ events[Len(events)].event = "error"
        /\ \A i \in 1..Len(events) : events[i].event # "done"
        /\ \A i \in 1..Len(events) :
              events[i].event = "content" => events[i].data.kind = "text"

(***************************************************************************)
(* Citations: properties                                                   *)
(***************************************************************************)
\* C11: for the same folder, message and scripted model outputs, the citation
\* list of the streaming endpoint's final event equals the citation list the
\* non-streaming chat returns.
C11_StreamCitationsEqualChat ==
    (chat.send.asked /\ chat.stream.asked) =>
        chat.stream.citations = chat.send.citations

NoRepeatedName(names) ==
    \A i, k \in 1..Len(names) : names[i] = names[k] => i = k

\* C15: in every answer HybridAgent.chat returns, RAG or native-files, the
\* citation list has at most one entry per file name.
C15_OneCitationPerName ==
    chat.send.asked => NoRepeatedName(chat.send.citations.list)

(***************************************************************************)
(* Vector store: properties                                                *)
(***************************************************************************)
\* C12: search_documents never returns the manifest record, whatever the result
\* cap and the file-name filter, from the filtered query and from the unfiltered
\* retry alike.
C12_SearchNeverReturnsManifest ==
    vstore.call = "search_documents" =>
        \A i \in 1..Len(vstore.hits) : vstore.hits[i].type # "manifest"

\* The filtered query raised and the retry returned the manifest record among
\* its documents; search_documents returned the other one.
C12_Witness ==
    /\ vstore.call = "search_documents" /\ vstore.fault = "query"
    /\ \E i \in 1..Len(vstore.raw) : vstore.raw[i].type = "manifest"
    /\ Len(vstore.hits) = 1

ManifestRecords == {r \in vstore.records : r.type = "manifest"}

\* C13: get_file_manifest after store_file_manifest returns a list equal to the
\* one stored, also for more than 50 descriptors; only the preview stops at 50
\* names; a later store replaces the manifest record, there is never a second.
C13_ManifestRoundTrip ==
    /\ Cardinality(ManifestRecords) <= 1
    /\ vstore.stores > 0 => Cardinality(ManifestRecords) = 1
    /\ \A r \in ManifestRecords :
        /\ json_loads(r.manifest_json) = [ok |-> TRUE, value |-> vstore.stored]
        /\ Len(r.summary.names) = IF Len(vstore.stored) > 50 THEN 50
                                  ELSE Len(vstore.stored)
        /\ r.summary.more = Len(vstore.stored) - Len(r.summary.names)
    /\ (vstore.call = "get_file_manifest" /\ vstore.fault = "none") =>
          vstore.manifest = vstore.stored

\* A list of 51 descriptors, stored over an earlier manifest, is read back whole.
C13_Witness ==
    /\ vstore.call = "get_file_manifest" /\ vstore.fault = "none"
    /\ vstore.stores = 2
    /\ Len(vstore.stored) = 51
    /\ vstore.manifest = vstore.stored

\* C14: get_file_manifest never raises; whatever fails while the manifest is
\* read, it returns an empty list.
C14_GetManifestNeverRaises ==
    vstore.call = "get_file_manifest" =>
        /\ ~vstore.raised
        /\ vstore.fault # "none" => vstore.manifest = <<>>

(***************************************************************************)
(* Downloader: properties                                                  *)
(***************************************************************************)
\* C16: download_files_parallel returns exactly one pair for every input
\* descriptor and nothing else, whatever the outcome of each download; the pair
\* of a file has content exactly when that file's own download succeeded, so a
\* timeout or failure of one file costs no other file its result.
C16_OnePairPerFile ==
    dl.returned =>
        /\ Len(dl.results) = Len(dl.files)
        /\ \A i \in 1..Len(dl.files) :
            /\ Cardinality({k \in 1..Len(dl.results) :
                                dl.results[k].file = dl.files[i]}) = 1
            /\ \A k \in 1..Len(dl.results) :
                dl.results[k].file = dl.files[i] =>
                    (dl.results[k].has_content <=> dl.tasks[i].outcome = "ok")
        /\ \A k \in 1..Len(dl.results) :
            \E i \in 1..Len(dl.files) : dl.results[k].file = dl.files[i]

\* Three files, one downloaded, one timed out, one failed: three pairs returned.
C16_Witness ==
    /\ dl.returned /\ Len(dl.files) = 3 /\ Len(dl.results) = 3
    /\ {dl.tasks[i].outcome : i \in 1..3} = {"ok", "timeout", "exception"}

(***************************************************************************)
(* The chunker: properties                                                 *)
(***************************************************************************)
\* s[n:] of Python
Drop(s, n) == IF n >= Len(s) THEN <<>> ELSE SubSeq(s, n + 1, Len(s))

RECURSIVE Rebuild(_, _)
Rebuild(chunks, overlap) ==
    IF Len(chunks) = 0 THEN <<>>
    ELSE IF Len(chunks) = 1 THEN chunks[1]
    ELSE Rebuild(SubSeq(chunks, 1, Len(chunks) - 1), overlap)
            \o Drop(chunks[Len(chunks)], overlap)

\* C21: for every text, chunk size W and overlap O with 0 <= O < W, chunk_text
\* returns, and the first chunk followed by every later chunk without its first
\* O characters is the text.
C21_NoLossAndTerminates ==
    /\ [](chunker.pc = "returned" =>
             Rebuild(chunker.chunks, chunker.overlap) = chunker.text)
    /\ <>(chunker.pc = "returned")

\* A text longer than the window, a positive overlap, several chunks returned.
C21_Witness ==
    /\ chunker.pc = "returned"
    /\ chunker.overlap > 0
    /\ Len(chunker.chunks) >= 3
    /\ Rebuild(chunker.chunks, chunker.overlap) = chunker.text

Ceil(a, b) == (a + b - 1) \div b

\* C22: chunk_text returns 1 chunk when len(T) <= W and
\* ceil((len(T) - O) / (W - O)) chunks when len(T) > W.
C22_ChunkCount ==
    chunker.pc = "returned" =>
        Len(chunker.chunks) =
            IF Len(chunker.text) <= chunker.chunk_size THEN 1
            ELSE Ceil(Len(chunker.text) - chunker.overlap,
                      chunker.chunk_size - chunker.overlap)

\* C23: every chunk chunk_text returns, except the last, has length exactly W.
C23_FullChunksButLast ==
    chunker.pc = "returned" =>
        \A k \in 1..(Len(chunker.chunks) - 1) :
            Len(chunker.chunks[k]) = chunker.chunk_size

(***************************************************************************)
(* Ingestion: the RAG path chosen by the selector                          *)
(***************************************************************************)
\* The selector has returned false in job j, which has not ended yet.
Rejected(j) ==
    /\ jobs[j].kind = "folder"
    /\ jobs[j].pc \in {"download", "process"}
    /\ ~jobs[j].use_fast_path

\* C24: a folder job whose selector call rejected the fast path never attempts
\* an upload, and when it ends without an exception the folder is READY in
\* vector-store mode.
C24_Step ==
    \A j \in Jobs :
        Rejected(j) =>
            /\ jobs'[j].pc \in {"download", "process", "idle"}
            /\ (jobs'[j].pc = "idle" /\ last'.result = "chroma")
                  => (folder'.status = "READY" /\ folder'.index_mode = "chroma")
C24_RejectedGoesVectorStore == [][C24_Step]_vars

(***************************************************************************)
(* The RAG agent loop with its conversation: properties                    *)
(***************************************************************************)
\* C25: _stream_chroma_rag yields no fragment before the last tool execution
\* has finished and executes no tool after the first fragment, and it makes at
\* most 6 model calls.
C25_Step ==
    rag.variant = "stream" =>
        /\ rag'.tools_run # rag.tools_run => (rag.delivered = <<>> /\ rag'.delivered = <<>>)
        /\ rag'.delivered # <<>> => rag'.pc \in {"streaming", "returned"}
        /\ rag'.calls <= 6
C25_ToolsBeforeFragments == [][C25_Step]_vars

\* Five tool executions, six model calls, and fragments delivered after them.
C25_Witness ==
    /\ rag.variant = "stream"
    /\ rag.tools_run = 5 /\ rag.calls = 6
    /\ Len(rag.delivered) >= 2

\* C26: when the model answers with a tool call in all 5 iterations, the
\* streaming path delivers the fixed apology, as the non-streaming path does,
\* and makes no model call after the fifth.
C26_StreamApology ==
    (rag.pc = "returned" /\ rag.tools_run = 5) =>
        (rag.delivered = <<Apology>> /\ rag.calls = 5)

\* C27: every model call of the loop sends the prompt, then the earlier
\* messages in order, then the latest turn: the first call of a chat that has
\* history sends the current user message as the new turn with every earlier
\* message before it, and the call after the k-th tool call sends the
\* serialized result of that tool call as the new turn.
C27_Step ==
    (rag'.calls = rag.calls + 1 /\ rag.pc = "loop") =>
        /\ (rag.calls = 0 /\ rag.history > 0) =>
              /\ rag'.sent.turn = PromptTurn
              /\ SelectSeq(rag'.sent.history, LAMBDA t : t.kind = "history")
                    = HistoryTurns(rag.history)
        /\ rag.calls > 0 => rag'.sent.turn = Turn("user", "tool_result", rag.calls)
C27_ConversationOrder == [][C27_Step]_vars

(***************************************************************************)
(* Streaming chat with a client that goes away: properties                 *)
(***************************************************************************)
\* C28: whatever the consumer does, also when it stops reading, the worker
\* never waits to enqueue a fragment or a marker, and once started it runs to
\* its end.
C28_WorkerRunsToCompletion ==
    /\ [](worker.pc = "running" => ENABLED WorkerPutDone)
    /\ (worker.pc = "running") ~> (worker.pc = "exited")

\* The client went away, the worker ended, and items are left in the queue.
C28_Witness ==
    /\ consumer.pc = "closed"
    /\ worker.pc = "exited"
    /\ Len(q) >= 3

(***************************************************************************)
(* The downloader: the blocking calls                                      *)
(***************************************************************************)
\* C29: during download_files_parallel(files, max_concurrent) at most
\* max_concurrent blocking download calls are executing at any time, the calls
\* of tasks that have timed out included.
C29_AtMostMaxConcurrentFetches ==
    Cardinality(Executing(dl.tasks)) <= dl.max_concurrent

(***************************************************************************)
(* The uploader: properties                                                *)
(***************************************************************************)
\* The files that come with content, in input order.
WithContent(has_content) ==
    SelectSeq([i \in 1..Len(has_content) |-> i], LAMBDA i : has_content[i])

\* C30: in a call of upload_files_to_gemini with the default concurrency 1, at
\* most one upload is in flight, the uploads start in input order, and after a
\* failed upload the remaining files are still uploaded: when the call returns,
\* every file that came with content has been attempted and has its descriptor.
C30_SequentialUploads ==
    up.max_concurrent = 1 =>
        /\ Cardinality(InFlight(up.tasks)) <= 1
        /\ up.started = SubSeq(WithContent(up.files), 1, Len(up.started))
        /\ up.returned =>
            /\ up.started = WithContent(up.files)
            /\ [k \in 1..Len(up.results) |-> up.results[k].id] = WithContent(up.files)

\* Three files with content, the first upload failed, the later ones succeeded.
C30_Witness ==
    /\ up.max_concurrent = 1
    /\ up.returned
    /\ Len(up.results) = 3
    /\ up.results[1].gemini_uri = Null
    /\ up.results[2].gemini_uri # Null /\ up.results[3].gemini_uri # Null

(***************************************************************************)
(* The uploader and the success rate: properties                           *)
(***************************************************************************)
\* The descriptors with a handle.
Handles(results) == {k \in 1..Len(results) : results[k].gemini_uri # Null}

\* C31: upload_files_to_gemini returns one descriptor per pair that has
\* content, in input order, and none for a pair without content, so
\* ingest_folder divides the successful uploads by the attempted uploads, not
\* by the listed files: unless something raises it accepts exactly when at
\* least half of the files that have content got a handle and at least one
\* did, with file_count the number of handles.
C31_RatioOverAttempted ==
    up.returned =>
        LET attempted == WithContent(up.files)
            handles == Cardinality(Handles(up.results))
        IN /\ [k \in 1..Len(up.results) |-> up.results[k].id] = attempted
           /\ up.decision.result = "accepted" =>
                 (handles >= 1 /\ 2 * handles >= Len(attempted)
                    /\ up.decision.file_count = handles)
           /\ (up.decision.result = "fallback" /\ ~up.decision.store_raised) =>
                 ~(handles >= 1 /\ 2 * handles >= Len(attempted))

\* Three files listed, one downloaded, its upload succeeded: accepted, file_count 1.
C31_Witness ==
    /\ Len(up.files) = 3
    /\ Len(WithContent(up.files)) = 1
    /\ up.decision.result = "accepted"
    /\ up.decision.file_count = 1

(***************************************************************************)
(* The drive lister: properties                                            *)
(***************************************************************************)
RECURSIVE UnderListed(_, _, _)
\* Folder dir and every folder above it were listed without a failure.
UnderListed(parent, failed, dir) ==
    /\ dir \notin failed
    /\ dir = 0 \/ UnderListed(parent, failed, parent[dir])

\* C32: recursive list_files returns the files of supported type of the root
\* and of every subfolder reached through folders that were listed, each once
\* and no file of another type; a subfolder whose listing fails costs the files
\* of its subtree only, and a failed listing of the root raises.
C32_ListsReachableSupportedFiles ==
    /\ lister.pc = "raised" <=> 0 \in lister.failed
    /\ (lister.pc = "returned" /\ lister.recursive) =>
        /\ \A i, j \in 1..Len(lister.all_files) :
              lister.all_files[i] = lister.all_files[j] => i = j
        /\ {lister.all_files[i] : i \in 1..Len(lister.all_files)}
              = {DriveFile(dir, TRUE) :
                    dir \in {d \in 0..Len(lister.parent) :
                                UnderListed(lister.parent, lister.failed, d)}}

\* Three subfolders: the listing of 1 failed, which holds 2; 3 is in the root.
\* The files of the root and of 3 are returned.
C32_Witness ==
    /\ lister.pc = "returned" /\ lister.recursive
    /\ lister.parent = <<0, 1, 0>>
    /\ lister.failed = {1}
    /\ lister.all_files = <<DriveFile(0, TRUE), DriveFile(3, TRUE)>>

(***************************************************************************)
(* Vector store: the file-name filter and the reads of a missing collection *)
(***************************************************************************)
\* C33: when search_documents is called with a file-name filter, every hit it
\* returns has that file name, also when the filtered query raised and the
\* query was made again.
C33_HitsMatchFilter ==
    (vstore.call = "search_documents" /\ ~vstore.raised /\ vstore.filter # Null) =>
        \A i \in 1..Len(vstore.hits) : vstore.hits[i].file_name = vstore.filter

\* C37: get_file_manifest and search_documents on a collection that does not
\* exist return an empty result and create no collection.
C37_Step ==
    (/\ ~vstore.exists
     /\ vstore'.call \in {"get_file_manifest", "search_documents"}
     /\ vstore' # vstore)
    => /\ ~vstore'.exists
       /\ ~vstore'.raised => (vstore'.manifest = <<>> /\ vstore'.hits = <<>>)
C37_ReadsCreateNothing == [][C37_Step]_vars

(***************************************************************************)
(* Ingestion: what ends a folder job                                       *)
(***************************************************************************)
\* Job j, an ingest_folder task that found its folder, ends in this step.
FolderJobEnds(j) ==
    /\ jobs[j].kind = "folder"
    /\ jobs[j].pc \in {"started", "download", "upload", "process"}
    /\ jobs'[j].pc = "idle"

\* C34: ingest_folder leaves the folder FAILED only when an exception escaped
\* the pipeline; a job whose listing has files but whose downloads all failed,
\* or whose files gave no text, ends READY in vector-store mode with
\* file_count 0 and with the manifest of every listed file stored.
C34_Step ==
    \A j \in Jobs :
        FolderJobEnds(j) =>
            /\ folder'.status = "FAILED" => last'.result = "failed"
            /\ (drive.files # <<>> /\ last'.result # "failed" /\ last'.indexed = 0
                    /\ last'.result # "gemini_files")
                => /\ last'.result = "chroma"
                   /\ folder'.status = "READY"
                   /\ folder'.index_mode = "chroma"
                   /\ folder'.file_count = 0
                   /\ collection'.manifest = IdsOf(drive.files)
C34_DegradedEndsReady == [][C34_Step]_vars


\* A job returns: its coroutine was past the load of the row and is gone.
JobEnds(j) ==
    /\ jobs[j].pc \notin {"idle", "queued"}
    /\ jobs'[j].pc = "idle"

\* No other writer has touched the row since the job loaded it: the row holds
\* what the job's session holds.
Uncontended(j) ==
    /\ folder.exists
    /\ \A c \in Cols : folder[c] = jobs[j].loc[c]

\* C35: when a folder is READY in native-files mode at the end of an ingestion
\* job (ingest_folder or ingest_single_file) that no other job or request
\* interfered with, its descriptor list is not empty, every descriptor has a
\* handle, and file_count is the length of the list and the number of entries
\* of the stored manifest.
C35_Step ==
    \A j \in Jobs :
        (JobEnds(j) /\ Uncontended(j)
            /\ folder'.status = "READY" /\ folder'.index_mode = "gemini_files")
        => /\ ~folder'.gemini_files.null
           /\ folder'.gemini_files.list # <<>>
           /\ \A i \in 1..Len(folder'.gemini_files.list) :
                 folder'.gemini_files.list[i].gemini_uri # Null
           /\ folder'.file_count = Len(folder'.gemini_files.list)
           /\ collection'.has_manifest
           /\ Len(collection'.manifest) = folder'.file_count
C35_NativeReadyConsistent == [][C35_Step]_vars

\* A fast-path job has just ended with fewer handles than files with content,
\* and the folder is READY in native-files mode with nothing else running.
C35_Witness ==
    /\ last.result = "gemini_files"
    /\ last.uploaded < last.downloaded
    /\ folder.status = "READY"
    /\ folder.index_mode = "gemini_files"
    /\ folder.file_count = last.uploaded
    /\ \A j \in Jobs : jobs[j].pc = "idle"

\* POST /folders as a whole: the three branches of the handler.
add_folder == add_folder_new \/ add_folder_failed \/ add_folder_existing

\* C38: add_folder on a drive id that is already linked schedules a job only
\* when the existing row is FAILED; when it is PENDING, INDEXING or READY the
\* request schedules nothing and leaves the row (status, index mode, file count,
\* descriptors, indexing time) and the collection as they are.
C38_Step ==
    add_folder =>
        /\ (folder.exists /\ jobs' # jobs) => folder.status = "FAILED"
        /\ (folder.exists /\ folder.status \in {"PENDING", "INDEXING", "READY"})
            => /\ jobs' = jobs
               /\ folder' = folder
               /\ collection' = collection
C38_RelinkStartsJobOnlyWhenFailed == [][C38_Step]_vars

\* add_folder has just returned a READY row as it was: no job runs, none was
\* scheduled, and the step was not the end of a job.
C38_Witness ==
    /\ folder.exists
    /\ folder.status = "READY"
    /\ folder.file_count > 0
    /\ last = NoReport
    /\ \A j \in Jobs : jobs[j].pc = "idle"

\* What a request produces: conversations, messages, model calls, searches.
Produced(g) == <<g.conversations, g.messages, g.model_calls, g.searches>>

\* C36: a chat request, on either route, goes past the folder check only when
\* the folder's status is READY at the time the request loads the row; for a
\* PENDING, INDEXING or FAILED folder it is rejected (400), and a conversation,
\* a message, a model call or a search is only ever produced by a request that
\* loaded a READY folder.
C36_Step ==
    /\ (gate'.requests # gate.requests)
        => /\ gate'.pc # "rejected" => (gate.row.exists /\ gate.row.status = "READY")
           /\ (gate.row.exists /\ gate.row.status \in {"PENDING", "INDEXING", "FAILED"})
               => /\ gate'.pc = "rejected"
                  /\ gate'.code = 400
                  /\ Produced(gate') = Produced(gate)
    /\ Produced(gate') # Produced(gate) => gate.seen = "READY"
    /\ (gate.pc = "rejected" /\ gate'.requests = gate.requests)
        => Produced(gate') = Produced(gate)
C36_ServedOnlyWhenReady == [][C36_Step]_vars

\* A first request was served and answered, the folder then left READY, and a
\* second request has been rejected with nothing added.
C36_Witness ==
    /\ gate.pc = "rejected"
    /\ gate.code = 400
    /\ gate.seen \in {"PENDING", "INDEXING", "FAILED"}
    /\ gate.requests = 2
    /\ gate.conversations = 1
    /\ gate.messages = 2
    /\ gate.model_calls = 1
====
